---- MODULE Spec2Model ----
(***************************************************************************)
(* A model of the centidb collection / index engine (src/centidb/centidb.py)*)
(* and of the acid range iterators (src/acid/iterators.py).                 *)
(*                                                                          *)
(* Byte strings are sequences of naturals below 256, compared the way the   *)
(* engine compares them (memcmp order).  The storage engine and the key     *)
(* codec are collaborators of the modelled code: they are modelled from     *)
(* their documented interface.                                              *)
(***************************************************************************)
EXTENDS Integers, Sequences, FiniteSets, TLC

VARIABLES
    engine,     \* the ordered engine: physical key (bytes) -> physical value (bytes)
    seek,       \* how the engine positions a reverse iterator ("floor" or "ceil")
    derived,    \* Collection.derived_keys
    held,       \* the Record object the caller holds (from get(rec=True) or put)
    last,       \* the last call: its operation, arguments, return value, exception
    nops,       \* number of calls made so far
    itr,        \* the fields of a RangeIterator (SpecRange)
    out,        \* what the last forward()/reverse()/decode produced
    rt,         \* the list of records handed to _prepare_batch (SpecBatch)
    keyed,      \* whether the collection was created with a key function
    store,      \* the dicts _encoder_prefix / _prefix_encoder of the Store object
    touched,    \* the engine calls the last call made, in order
    callers,    \* the concurrent callers of Store.count: where each one is
    commits     \* the values count() returned, in the order of the engine writes

vars == <<engine, seek, derived, held, last, nops, itr, out, rt,
          keyed, store, touched, callers, commits>>

(***************************************************************************)
(* Bounds of the model.                                                     *)
(***************************************************************************)
MaxKey == 2         \* 1-tuple keys are <<1>> .. <<MaxKey>>
MaxVal == 2         \* record values are 1 .. MaxVal
MaxOps == 4         \* calls made on the collection in one behaviour
MaxMapOps == 3      \* calls made in one behaviour of SpecMap

(***************************************************************************)
(* Program constants.                                                       *)
(***************************************************************************)
KIND_INTEGER == 21
KIND_SEP == 102
CollIdx == 10           \* first value of the '\x00collections_idx' counter
PlainPrefix == 3        \* PLAIN_PACKER is _ENCODERS[2]: pack_int(1 + 2)

None == <<>>            \* Python None where a key tuple is expected
NoInt == 0 - 1          \* Python None where a count is expected

(***************************************************************************)
(* Sequence helpers.                                                        *)
(***************************************************************************)
Rev(s) == [i \in 1..Len(s) |-> s[Len(s) + 1 - i]]

Take(s, n) == SubSeq(s, 1, IF n < Len(s) THEN n ELSE Len(s))

Drop(s, n) == SubSeq(s, n + 1, Len(s))

RECURSIVE Concat(_)
Concat(ss) == IF ss = <<>> THEN <<>> ELSE ss[1] \o Concat(Tail(ss))

HasPrefix(p, s) == Len(s) >= Len(p) /\ SubSeq(s, 1, Len(p)) = p

\* memcmp order on byte strings; also Python's order on tuples of integers
RECURSIVE SeqLt(_, _)
SeqLt(a, b) ==
    IF b = <<>> THEN FALSE
    ELSE IF a = <<>> THEN TRUE
    ELSE IF a[1] # b[1] THEN a[1] < b[1]
    ELSE SeqLt(Tail(a), Tail(b))

SeqLe(a, b) == a = b \/ SeqLt(a, b)

RECURSIVE SortSeqs(_)
SortSeqs(S) ==
    IF S = {} THEN <<>>
    ELSE LET p == CHOOSE x \in S : TRUE
         IN  SortSeqs({y \in S : SeqLt(y, p)}) \o <<p>> \o SortSeqs({y \in S : SeqLt(p, y)})

(***************************************************************************)
(* Key codec (keycoder): tuples of integers, an integer being KIND_INTEGER  *)
(* followed by its varint; the tuples of a list are joined by KIND_SEP.     *)
(***************************************************************************)
PackInt(n) == <<n>>

RECURSIVE PackTuple(_)
PackTuple(t) ==
    IF t = <<>> THEN <<>>
    ELSE <<KIND_INTEGER>> \o PackInt(t[1]) \o PackTuple(Tail(t))

RECURSIVE PackList(_)
PackList(ts) ==
    IF ts = <<>> THEN <<>>
    ELSE IF Len(ts) = 1 THEN PackTuple(ts[1])
    ELSE PackTuple(ts[1]) \o <<KIND_SEP>> \o PackList(Tail(ts))

Packs(pfx, ts) == pfx \o PackList(ts)

RECURSIVE UnpackList(_, _, _)
UnpackList(b, cur, acc) ==
    IF b = <<>> THEN Append(acc, cur)
    ELSE IF b[1] = KIND_SEP THEN UnpackList(Tail(b), <<>>, Append(acc, cur))
    ELSE UnpackList(Drop(b, 2), Append(cur, b[2]), acc)

\* keycoder.unpacks: the list of tuples, or nothing when the prefix differs
Unpacks(pfx, key) ==
    IF HasPrefix(pfx, key) THEN UnpackList(Drop(key, Len(pfx)), <<>>, <<>>)
    ELSE <<>>

RECURSIVE RStripFF(_)
RStripFF(s) ==
    IF s # <<>> /\ s[Len(s)] = 255 THEN RStripFF(SubSeq(s, 1, Len(s) - 1)) ELSE s

next_greater(s) ==
    LET s2 == RStripFF(s)
    IN  IF s2 = <<>> THEN <<>>
        ELSE SubSeq(s2, 1, Len(s2) - 1) \o <<s2[Len(s2)] + 1>>

(***************************************************************************)
(* The engine: put / delete / iter.                                          *)
(***************************************************************************)
EnginePut(eng, k, v) == [x \in DOMAIN eng \cup {k} |-> IF x = k THEN v ELSE eng[x]]

EngineDelete(eng, k) == [x \in DOMAIN eng \ {k} |-> eng[x]]

RECURSIVE EngineDeleteAll(_, _)
EngineDeleteAll(eng, ks) ==
    IF ks = <<>> THEN eng ELSE EngineDeleteAll(EngineDelete(eng, ks[1]), Tail(ks))

RECURSIVE EnginePutAll(_, _, _)
EnginePutAll(eng, ks, v) ==
    IF ks = <<>> THEN eng ELSE EnginePutAll(EnginePut(eng, ks[1], v), Tail(ks), v)

\* iter(start, reverse): the (key, value) pairs from start on, in the direction
\* asked for.  Forward it starts at the first key >= start.  In reverse it
\* starts, in "floor" mode, at the last key <= start; in "ceil" mode at the
\* first key >= start when there is one (and at the last key otherwise).
EngineEntries(eng, ks) == [i \in 1..Len(ks) |-> <<ks[i], eng[ks[i]]>>]

\* the keys a reverse iterator visits: up are the keys >= start ascending, down
\* the keys <= start descending
ReverseKeys(up, down, start) ==
    IF seek = "ceil" /\ up # <<>> /\ up[1] # start THEN <<up[1]>> \o down ELSE down

EngineIter(eng, start, reverse) ==
    IF ~reverse
    THEN EngineEntries(eng, SortSeqs({k \in DOMAIN eng : SeqLe(start, k)}))
    ELSE EngineEntries(eng, ReverseKeys(SortSeqs({k \in DOMAIN eng : SeqLe(start, k)}),
                                        Rev(SortSeqs({k \in DOMAIN eng : SeqLe(k, start)})),
                                        start))

(***************************************************************************)
(* Store / Collection constants and the sample user functions.              *)
(***************************************************************************)
prefix == PackInt(CollIdx)              \* Collection.prefix (store prefix '')

idxPrefix == PackInt(CollIdx + 1)       \* Index.prefix of the collection's index

Keys == {<<i>> : i \in 1..MaxKey} \cup {<<MaxKey, 1>>}

Vals == 1..MaxVal

\* the record of the '\x00collections' metadata collection describing the
\* collection: an engine entry below the collection's prefix
MetaKey == <<0, 50, 1>>

\* Encoder.pack / Encoder.unpack of the value encoder: a value v is v bytes long
EncoderPack(v) == [i \in 1..v |-> 64 + v]

EncoderUnpack(s) == s[1] - 64

\* PLAIN_PACKER
PackerPack(o) == o

PackerUnpack(s) == s

\* key_func: the key is derived from the value (a lone primitive); two values
\* share each key
key_func(v) == (v + 1) \div 2

\* the grouper handed to batch() when one is given
Grouper(v) == v % 2

\* the index function: a lone primitive, a list of primitives, or nothing
IndexFunc(v) ==
    IF v = 1 THEN [list |-> FALSE, val |-> 5]
    ELSE IF v = 2 THEN [list |-> TRUE, val |-> <<5, 6>>]
    ELSE [list |-> TRUE, val |-> <<>>]

tuplize(x) == <<x>>

(***************************************************************************)
(* Collection: reading.                                                     *)
(***************************************************************************)
\* decode_offsets: the offsets array and the position after it
RECURSIVE OffsetsFrom(_, _, _, _)
OffsetsFrom(s, pos, n, acc) ==
    IF n = 0 THEN acc
    ELSE OffsetsFrom(s, pos + 1, n - 1, Append(acc, acc[Len(acc)] + s[pos + 1]))

decode_offsets(s) == [offsets |-> OffsetsFrom(s, 1, s[1], <<0>>), pos |-> 1 + s[1]]

\* Collection._decompress: the first byte names the packer
_decompress(s) == PackerUnpack(Tail(s))

\* the members of a batch: ks are the keys after keys.reverse(), rit the order
\* in which the offsets are visited
ExplodeBatch(ks, offsets, data, rit) ==
    [j \in 1..Len(ks) |->
        [batch |-> TRUE, key |-> ks[rit[j] + 1],
         data |-> SubSeq(data, offsets[rit[j] + 1] + 1, offsets[rit[j] + 2])]]

\* a batch entry, given what decode_offsets found
ExplodeAt(keys, value, reverse, d) ==
    ExplodeBatch(Rev(keys), d.offsets, _decompress(Drop(value, d.pos)),
                 IF reverse THEN [i \in 1..Len(keys) |-> Len(keys) - i]
                 ELSE [i \in 1..Len(keys) |-> i - 1])

\* the logical records of one physical entry, in the direction of the scan
Explode(keys, value, reverse) ==
    IF Len(keys) = 1
    THEN <<[batch |-> FALSE, key |-> keys[1], data |-> _decompress(value)]>>
    ELSE ExplodeAt(keys, value, reverse, decode_offsets(value))

RECURSIVE LogicalRecs(_, _)
LogicalRecs(it, reverse) ==
    IF it = <<>> THEN <<>>
    ELSE LET keys == Unpacks(prefix, it[1][1])
         IN  IF keys = <<>> THEN <<>>
             ELSE Explode(keys, it[1][2], reverse) \o LogicalRecs(Tail(it), reverse)

\* Collection._logical_iter
_logical_iter(it, reverse) ==
    IF it = <<>> THEN <<>>
    ELSE IF HasPrefix(prefix, it[1][1]) THEN LogicalRecs(it, reverse)
    ELSE LogicalRecs(Tail(it), reverse)

\* a bound method kept as a predicate: bool, b.__lt__, b.__le__, b.__gt__,
\* b.__ge__ of the bound b, applied to the key k
ApplyPred(p, bound, k) ==
    CASE p = "bool" -> k # <<>>
      [] p = "lt" -> SeqLt(bound, k)
      [] p = "le" -> SeqLe(bound, k)
      [] p = "gt" -> SeqLt(k, bound)
      [] p = "ge" -> SeqLe(k, bound)

\* itertools.dropwhile over the keys of the records
RECURSIVE DropWhileKey(_, _, _)
DropWhileKey(p, bound, s) ==
    IF s # <<>> /\ ApplyPred(p, bound, s[1].key) THEN DropWhileKey(p, bound, Tail(s)) ELSE s

\* itertools.takewhile over the keys of the records
RECURSIVE TakeWhileKey(_, _, _)
TakeWhileKey(p, bound, s) ==
    IF s # <<>> /\ ApplyPred(p, bound, s[1].key)
    THEN <<s[1]>> \o TakeWhileKey(p, bound, Tail(s)) ELSE <<>>

\* the predicate that ends a reverse scan: lo.__ge__
ReverseEndPred == "ge"

\* Collection._iter
_iter(eng, key, lo0, hi0, reverse, max_, include0, max_phys) ==
    LET lo == IF key # None /\ ~reverse THEN key ELSE lo0
        hi == IF key # None /\ reverse THEN key ELSE hi0
        include1 == IF key # None /\ reverse THEN TRUE ELSE include0
        lokey == IF lo = None THEN prefix ELSE Packs(prefix, <<lo>>)
        hikey == IF hi = None THEN next_greater(prefix) ELSE Packs(prefix, <<hi>>)
        include == IF hi = None THEN FALSE ELSE include1
        startkey == IF reverse THEN hikey ELSE lokey
        it0 == EngineIter(eng, startkey, reverse)
        it1 == IF max_phys # NoInt THEN Take(it0, max_phys) ELSE it0
        it2 == _logical_iter(it1, reverse)
        it3 == IF max_ # NoInt THEN Take(it2, max_) ELSE it2
        it4 == IF reverse /\ hi # None
               THEN IF include THEN DropWhileKey("lt", hi, it3)
                    ELSE DropWhileKey("le", hi, it3)
               ELSE it3
    IN  IF reverse
        THEN IF lo # None THEN TakeWhileKey(ReverseEndPred, lo, it4) ELSE it4
        ELSE IF hi # None
             THEN IF include THEN TakeWhileKey("ge", hi, it4)
                  ELSE TakeWhileKey("gt", hi, it4)
             ELSE it4

(***************************************************************************)
(* Records.                                                                 *)
(***************************************************************************)
\* Record(coll, data, _key, _batch, _txn_id, _index_keys); index_keys None is <<>>
Record(data, key, batch, index_keys) ==
    [some |-> TRUE, data |-> data, key |-> key, batch |-> batch, index_keys |-> index_keys]

\* Python None where a Record is expected
NoRec == [some |-> FALSE, data |-> 0, key |-> None, batch |-> FALSE, index_keys |-> <<>>]

\* Collection._index_keys
_index_keys(key, obj) ==
    LET lst == IndexFunc(obj)
        elems == IF lst.list THEN lst.val ELSE <<lst.val>>
    IN  [i \in 1..Len(elems) |-> Packs(idxPrefix, <<tuplize(elems[i]), key>>)]

\* tup = next(it, None) and the Record get() makes of it
FirstRecord(key, it) ==
    IF it = <<>> THEN NoRec
    ELSE Record(EncoderUnpack(it[1].data), key, it[1].batch,
                _index_keys(key, EncoderUnpack(it[1].data)))

\* get() without its upper bound: the first record at or after the key
get_unbounded(eng, key) ==
    FirstRecord(key, _iter(eng, None, key, None, FALSE, NoInt, TRUE, NoInt))

\* Collection.get(key, rec=True)
get(eng, key) == FirstRecord(key, _iter(eng, None, key, key, FALSE, NoInt, TRUE, NoInt))

\* the (key, self.encoder.unpack(data)) pairs of an iterator
KeyValuePairs(it) == [i \in 1..Len(it) |-> <<it[i].key, EncoderUnpack(it[i].data)>>]

\* Collection.items(): the (key, value) pairs
items(eng, key, lo, hi, reverse, max_, include) ==
    KeyValuePairs(_iter(eng, key, lo, hi, reverse, max_, include, NoInt))

(***************************************************************************)
(* Collection: batch().                                                     *)
(***************************************************************************)
\* _prepare_batch that packs the keys in the order of the records
_prepare_batch_in_order(its) ==
    LET keytups == [i \in 1..Len(its) |-> its[i].key]
        phys == Packs(prefix, keytups)
        lens == Concat([i \in 1..Len(its) |-> PackInt(Len(its[i].data))])
        concat == Concat([i \in 1..Len(its) |-> its[i].data])
    IN  [phys |-> phys,
         data |-> IF Len(its) = 1
                  THEN PackInt(PlainPrefix) \o PackerPack(its[1].data)
                  ELSE PackInt(Len(its)) \o lens \o PackInt(PlainPrefix)
                       \o PackerPack(concat)]

\* Collection._prepare_batch: the physical key and value of a list of records
_prepare_batch(its) ==
    LET keytups == Rev([i \in 1..Len(its) |-> its[i].key])
        phys == Packs(prefix, keytups)
        lens == Concat([i \in 1..Len(its) |-> PackInt(Len(its[i].data))])
        concat == Concat([i \in 1..Len(its) |-> its[i].data])
    IN  [phys |-> phys,
         data |-> IF Len(its) = 1
                  THEN PackInt(PlainPrefix) \o PackerPack(its[1].data)
                  ELSE PackInt(Len(its)) \o lens \o PackInt(PlainPrefix)
                       \o PackerPack(concat)]

\* Collection._write_batch: the engine afterwards (the list is emptied by the caller)
_write_batch(eng, its) ==
    IF its = <<>> THEN eng
    ELSE LET b == _prepare_batch(its) IN EnginePut(eng, b.phys, b.data)

Truthy(n) == n # NoInt /\ n # 0

\* a loop turn that writes the group out one record late
BatchStep_late_flush(st, r, p) ==
    IF p.preserve /\ r.batch
    THEN [eng |-> _write_batch(st.eng, st.its), its |-> <<>>, groupval |-> st.groupval]
    ELSE LET eng1 == EngineDelete(st.eng, Packs(prefix, <<r.key>>))
             item == [key |-> r.key, data |-> r.data]
             its1 == Append(st.its, item)
             over == Truthy(p.max_bytes)
                     /\ Len(_prepare_batch(its1).data) > p.max_bytes
             eng2 == IF over THEN _write_batch(eng1, st.its) ELSE eng1
             its2 == IF over THEN <<item>> ELSE its1
             done1 == Truthy(p.max_recs) /\ Len(its2) = p.max_recs + 1
             val == Grouper(EncoderUnpack(r.data))
             grp == ~done1 /\ p.grouper
             done == IF grp THEN val # st.groupval ELSE done1
         IN  [eng |-> IF done THEN _write_batch(eng2, its2) ELSE eng2,
              its |-> IF done THEN <<>> ELSE its2,
              groupval |-> IF grp THEN val ELSE st.groupval]

\* a loop turn that passes over an existing batch without writing out the
\* group being built
BatchStep_no_flush(st, r, p) ==
    IF p.preserve /\ r.batch
    THEN st
    ELSE LET eng1 == EngineDelete(st.eng, Packs(prefix, <<r.key>>))
             item == [key |-> r.key, data |-> r.data]
             its1 == Append(st.its, item)
             over == Truthy(p.max_bytes)
                     /\ Len(_prepare_batch(its1).data) > p.max_bytes
             eng2 == IF over THEN _write_batch(eng1, st.its) ELSE eng1
             its2 == IF over THEN <<item>> ELSE its1
             done1 == Truthy(p.max_recs) /\ Len(its2) = p.max_recs
             val == Grouper(EncoderUnpack(r.data))
             grp == ~done1 /\ p.grouper
             done == IF grp THEN val # st.groupval ELSE done1
         IN  [eng |-> IF done THEN _write_batch(eng2, its2) ELSE eng2,
              its |-> IF done THEN <<>> ELSE its2,
              groupval |-> IF grp THEN val ELSE st.groupval]

\* one turn of the loop of Collection.batch, on the logical record r
BatchStep(st, r, p) ==
    IF p.preserve /\ r.batch
    THEN [eng |-> _write_batch(st.eng, st.its), its |-> <<>>, groupval |-> st.groupval]
    ELSE LET eng1 == EngineDelete(st.eng, Packs(prefix, <<r.key>>))
             item == [key |-> r.key, data |-> r.data]
             its1 == Append(st.its, item)
             over == Truthy(p.max_bytes)
                     /\ Len(_prepare_batch(its1).data) > p.max_bytes
             eng2 == IF over THEN _write_batch(eng1, st.its) ELSE eng1
             its2 == IF over THEN <<item>> ELSE its1
             done1 == Truthy(p.max_recs) /\ Len(its2) = p.max_recs
             val == Grouper(EncoderUnpack(r.data))
             grp == ~done1 /\ p.grouper
             done == IF grp THEN val # st.groupval ELSE done1
         IN  [eng |-> IF done THEN _write_batch(eng2, its2) ELSE eng2,
              its |-> IF done THEN <<>> ELSE its2,
              groupval |-> IF grp THEN val ELSE st.groupval]

RECURSIVE BatchLoop(_, _, _)
BatchLoop(it, st, p) ==
    IF it = <<>> THEN st ELSE BatchLoop(Tail(it), BatchStep(st, it[1], p), p)

\* the last self._write_batch(txn, items, packer) of batch()
batch_end(st) == [eng |-> _write_batch(st.eng, st.its), err |-> "none"]

\* Collection.batch: the engine afterwards, or the exception raised
batch(eng, p) ==
    IF ~(Truthy(p.max_bytes) \/ Truthy(p.max_recs))
    THEN [eng |-> eng, err |-> "AssertionError"]
    ELSE batch_end(BatchLoop(_iter(eng, None, p.lo, p.hi, FALSE, NoInt, TRUE, p.max_phys),
                             [eng |-> eng, its |-> <<>>, groupval |-> NoInt], p))

(***************************************************************************)
(* Collection: put() and delete().                                          *)
(***************************************************************************)
\* Collection._split_batch: raises before it changes anything
_split_batch(eng, rec) == [eng |-> eng, rec |-> rec, ret |-> NoRec, err |-> "AssertionError"]

\* Collection.delete, given the Record (its own argument, or what get() found)
delete_rec(eng, rec) ==
    IF rec.some /\ rec.key # None
    THEN IF rec.batch THEN _split_batch(eng, rec)
         ELSE LET eng1 == EngineDelete(eng, Packs(prefix, <<rec.key>>))
                  eng2 == EngineDeleteAll(eng1, rec.index_keys)
                  rec1 == Record(rec.data, None, FALSE, <<>>)
              IN  [eng |-> eng2, rec |-> rec1, ret |-> rec1, err |-> "none"]
    ELSE [eng |-> eng, rec |-> rec, ret |-> NoRec, err |-> "none"]

\* Collection.delete(obj) for a key
delete(eng, key) == delete_rec(eng, get(eng, key))

\* Collection._reassign_key
_reassign_key(rec) ==
    IF rec.key # None /\ ~derived THEN rec.key ELSE tuplize(key_func(rec.data))

\* put(), first half: what is deleted before the record is written (the old
\* physical key and index entries of a Record, or the record found under
\* obj_key for a plain value)
put_purge(eng, rec, blind, obj_key, index_keys) ==
    IF rec.key # None
    THEN IF rec.batch THEN _split_batch(eng, rec)
         ELSE [eng |-> EngineDeleteAll(
                          IF rec.key # obj_key
                          THEN EngineDelete(eng, Packs(prefix, <<rec.key>>))
                          ELSE eng,
                          IF index_keys # rec.index_keys THEN rec.index_keys ELSE <<>>),
               err |-> "none"]
    ELSE IF ~blind THEN delete(eng, obj_key)
    ELSE [eng |-> eng, err |-> "none"]

\* put(), second half: the record and its index entries are written
put_write(eng, rec, obj_key, index_keys, old) ==
    IF old.err # "none"
    THEN [eng |-> eng, rec |-> rec, ret |-> NoRec, err |-> old.err]
    ELSE [eng |-> EnginePutAll(
                     EnginePut(old.eng, Packs(prefix, <<obj_key>>),
                               PackInt(PlainPrefix) \o PackerPack(EncoderPack(rec.data))),
                     index_keys, <<>>),
          rec |-> Record(rec.data, obj_key, rec.batch, index_keys),
          ret |-> Record(rec.data, obj_key, rec.batch, index_keys),
          err |-> "none"]

\* put() once obj_key is known
put_at(eng, rec, blind, obj_key) ==
    put_write(eng, rec, obj_key, _index_keys(obj_key, rec.data),
              put_purge(eng, rec, blind, obj_key, _index_keys(obj_key, rec.data)))

\* Collection.put(rec, key=key, blind=blind) for a Record rec (a plain value is
\* wrapped into Record(self, value) by the caller of this operator)
put(eng, rec, key, blind) ==
    put_at(eng, rec, blind, IF key # None THEN key ELSE _reassign_key(rec))

(***************************************************************************)
(* The collection as a state machine: one action per call.                  *)
(***************************************************************************)
Call(op, key, val, ret, err) ==
    [op |-> op, key |-> key, val |-> val, ret |-> ret, err |-> err]

\* Iterator: the class defaults of _lo, _hi, _lo_pred, _hi_pred, _remain
NoItr == [lo |-> None, hi |-> None, lo_pred |-> "bool", hi_pred |-> "bool", remain |-> NoInt]

\* nothing scanned yet
NoOut == [dir |-> "none", recs |-> <<>>]

\* _ENCODERS: the encoder objects every Store knows, each with its name (the
\* names 'key', 'pickle', 'plain', 'zlib' are written 1, 2, 3, 4)
_ENCODERS ==
    <<[obj |-> "KEY_ENCODER", name |-> 1], [obj |-> "PICKLE_ENCODER", name |-> 2],
      [obj |-> "PLAIN_PACKER", name |-> 3], [obj |-> "ZLIB_PACKER", name |-> 4]>>

\* Store.__init__: _encoder_prefix maps each encoder object to its prefix
\* byte, _prefix_encoder each prefix byte to its encoder
NewStore ==
    [encoder_prefix |-> [o \in {_ENCODERS[i].obj : i \in 1..Len(_ENCODERS)} |->
                            PackInt(CHOOSE i \in 1..Len(_ENCODERS) : _ENCODERS[i].obj = o)],
     prefix_encoder |-> [q \in {PackInt(i) : i \in 1..Len(_ENCODERS)} |-> _ENCODERS[q[1]]]]

\* the collection has a key function; no call of the store is recorded
KeyedIdle ==
    /\ keyed = TRUE
    /\ store = NewStore
    /\ touched = <<>>
    /\ callers = <<>>
    /\ commits = <<>>

Init ==
    /\ engine = [k \in {MetaKey} |-> <<1>>]
    /\ seek \in {"floor", "ceil"}
    /\ derived \in BOOLEAN
    /\ held = NoRec
    /\ last = Call("init", None, 0, NoRec, "none")
    /\ nops = 0
    /\ itr = NoItr
    /\ out = NoOut
    /\ rt = <<>>
    /\ KeyedIdle

Frame == UNCHANGED <<seek, derived, itr, out, rt, keyed, store, touched, callers, commits>>

\* coll.put(v, key=key, blind=blind); the caller keeps the Record returned or not
PutValue(v, key, blind, keep) ==
    /\ nops < MaxOps
    /\ \E r \in {put(engine, Record(v, None, FALSE, <<>>), key, blind)} :
          /\ engine' = r.eng
          /\ held' = IF keep /\ r.err = "none" THEN r.ret ELSE held
          /\ last' = Call(IF blind THEN "put_blind" ELSE "put",
                           IF key # None THEN key ELSE tuplize(key_func(v)),
                           v, r.ret, r.err)
    /\ nops' = nops + 1
    /\ Frame

\* held.data = v; coll.put(held, key=key)
PutHeld(v, key) ==
    /\ nops < MaxOps
    /\ held.some
    /\ \E r \in {put(engine, [held EXCEPT !.data = v], key, FALSE)} :
          /\ engine' = r.eng
          /\ held' = r.rec
          /\ last' = Call(IF key # None THEN "put_rec_key" ELSE "put_rec",
                           IF r.err = "none" THEN r.ret.key ELSE held.key, v, r.ret, r.err)
    /\ nops' = nops + 1
    /\ Frame

\* held = coll.get(key, rec=True)
GetRec(key) ==
    /\ nops < MaxOps
    /\ \E r \in {get(engine, key)} :
          /\ held' = r
          /\ last' = Call("get", key, 0, r, "none")
    /\ nops' = nops + 1
    /\ UNCHANGED engine
    /\ Frame

\* coll.delete(key)
DeleteKey(key) ==
    /\ nops < MaxOps
    /\ \E r \in {delete(engine, key)} :
          /\ engine' = r.eng
          /\ last' = Call("delete", key, 0, r.ret, r.err)
    /\ nops' = nops + 1
    /\ UNCHANGED held
    /\ Frame

\* coll.delete(held)
DeleteHeld ==
    /\ nops < MaxOps
    /\ held.some
    /\ \E r \in {delete_rec(engine, held)} :
          /\ engine' = r.eng
          /\ held' = r.rec
          /\ last' = Call("delete_rec", held.key, 0, r.ret, r.err)
    /\ nops' = nops + 1
    /\ Frame

BatchArgs(lo, hi, max_recs, max_bytes, preserve, max_phys, grouper) ==
    [lo |-> lo, hi |-> hi, max_recs |-> max_recs, max_bytes |-> max_bytes,
     preserve |-> preserve, max_phys |-> max_phys, grouper |-> grouper]

\* the argument lists batch() is called with
BatchCalls ==
    {BatchArgs(None, None, m, NoInt, pr, NoInt, FALSE) : m \in 1..MaxKey, pr \in BOOLEAN}
    \cup {BatchArgs(k, None, 2, NoInt, TRUE, NoInt, FALSE) : k \in Keys}
    \cup {BatchArgs(None, k, 2, NoInt, TRUE, NoInt, FALSE) : k \in Keys}
    \cup {BatchArgs(None, None, NoInt, 7, TRUE, NoInt, FALSE)}
    \cup {BatchArgs(None, None, 2, NoInt, TRUE, 2, FALSE)}
    \cup {BatchArgs(None, None, MaxKey + 1, NoInt, TRUE, NoInt, TRUE)}
    \cup {BatchArgs(None, None, NoInt, NoInt, TRUE, NoInt, FALSE)}

\* coll.batch(...)
Batch(p) ==
    /\ nops < MaxOps
    /\ \E r \in {batch(engine, p)} :
          /\ engine' = r.eng
          /\ last' = Call("batch", None, 0, NoRec, r.err)
    /\ nops' = nops + 1
    /\ UNCHANGED held
    /\ Frame

Next ==
    \/ \E v \in Vals, key \in Keys \cup {None}, blind \in BOOLEAN, keep \in BOOLEAN :
          PutValue(v, key, blind, keep)
    \/ \E v \in Vals, key \in Keys \cup {None} : PutHeld(v, key)
    \/ \E key \in Keys : GetRec(key)
    \/ \E key \in Keys : DeleteKey(key)
    \/ DeleteHeld
    \/ \E p \in BatchCalls : Batch(p)

Spec == Init /\ [][Next]_vars

(***************************************************************************)
(* What the engine holds, read entry by entry.                              *)
(***************************************************************************)
\* the physical entries of the collection
PhysKeys(eng) == {k \in DOMAIN eng : HasPrefix(prefix, k)}

\* the logical records of physical entry k, lowest key first
Members(eng, k) == Explode(Unpacks(prefix, k), eng[k], FALSE)

\* every stored logical record, with the physical entry that holds it
Stored(eng) ==
    UNION {{[phys |-> k, key |-> Members(eng, k)[i].key,
             val |-> EncoderUnpack(Members(eng, k)[i].data)] :
            i \in 1..Len(Members(eng, k))} : k \in PhysKeys(eng)}

\* the entries of the index that refer to primary key K
IndexEntries(eng, K) ==
    {e \in DOMAIN eng : HasPrefix(idxPrefix, e) /\ Unpacks(idxPrefix, e)[2] = K}

Range(s) == {s[i] : i \in 1..Len(s)}

IndexConsistent(eng) ==
    \A K \in Keys :
        IndexEntries(eng, K) =
            UNION {Range(_index_keys(K, r.val)) : r \in {x \in Stored(eng) : x.key = K}}

\* every logical key is stored once
StoredOnce(eng) == \A r, q \in Stored(eng) : r.key = q.key => r = q

\* the forward scan of the whole collection
Scan(eng) == items(eng, None, None, None, FALSE, NoInt, FALSE)

StrictlyAscending(s) == \A i \in 1..(Len(s) - 1) : SeqLt(s[i][1], s[i + 1][1])

\* the Record the caller holds is the one get() would return now
HeldFresh == held.key = None \/ get(engine, held.key) = held

\* the physical entry of the lone record K
SingleAt(eng, K) == Packs(prefix, <<K>>) \in DOMAIN eng

\* K is stored, alone or inside a batch
Live(eng, K) == \E r \in Stored(eng) : r.key = K

\* K is stored inside a batch
InBatch(eng, K) == \E r \in Stored(eng) : r.key = K /\ Len(Unpacks(prefix, r.phys)) > 1

\* what a reader sees under K: <<value>>, or None
getv(eng, K) == LET r == get(eng, K) IN IF r.some THEN <<r.data>> ELSE None

(***************************************************************************)
(* Claims about the whole collection, checked under Spec.                   *)
(***************************************************************************)
\* C1: index consistency.  A non-blind put, a delete or a batch call that
\* starts from a collection whose index entries are exactly those the index
\* function yields for the stored records ends in such a collection (a Record
\* argument being the one get() returns at that moment).
C1_IndexConsistency ==
    [][(/\ IndexConsistent(engine)
        /\ last'.op \in {"put", "put_rec", "delete", "delete_rec", "batch"}
        /\ (last'.op \in {"put_rec", "delete_rec"} => HeldFresh))
       => IndexConsistent(engine')]_vars

\* C3: delete(K) of a live non-batch record removes its physical key and its
\* index entries and returns the record; delete(K) of an absent key returns
\* None and changes nothing.
C3_DeleteSemantics ==
    [][last'.op = "delete" =>
        LET K == last'.key IN
        /\ SingleAt(engine, K) =>
             LET V == EncoderUnpack(_decompress(engine[Packs(prefix, <<K>>)])) IN
             /\ ~SingleAt(engine', K)
             /\ \A e \in Range(_index_keys(K, V)) : e \notin DOMAIN engine'
             /\ last'.err = "none" /\ last'.ret.some /\ last'.ret.data = V
        /\ ~Live(engine, K) =>
             /\ last'.err = "none" /\ ~last'.ret.some /\ engine' = engine]_vars

\* C4: a successful batch() over a collection whose forward scan is strictly
\* ascending leaves the forward scan of (key, value) pairs as it was.
C4_BatchKeepsScan ==
    [][(last'.op = "batch" /\ last'.err = "none" /\ StrictlyAscending(Scan(engine)))
       => Scan(engine') = Scan(engine)]_vars

\* C5: get(K) of a key stored (once) inside a batch returns the value that
\* key was stored with.
C5_GetBatchMember ==
    \A r \in Stored(engine) :
        (StoredOnce(engine) /\ Len(Unpacks(prefix, r.phys)) > 1)
            => getv(engine, r.key) = <<r.val>>

\* C6: a delete or non-blind put of a key that is a member of a batch succeeds,
\* leaves no batch holding that key, and leaves every other member of the
\* batch retrievable with its value.
C6_BatchExplosion ==
    [][(last'.op \in {"delete", "put"} /\ StoredOnce(engine) /\ InBatch(engine, last'.key))
       => /\ last'.err = "none"
          /\ ~InBatch(engine', last'.key)
          /\ \A r \in Stored(engine) :
                (r.key # last'.key /\ InBatch(engine, r.key))
                    => getv(engine', r.key) = <<r.val>>]_vars

\* C8: after any sequence of put, delete and batch the keys of a forward scan
\* are strictly ascending.
C8_ScanAscending == StrictlyAscending(Scan(engine))

InitMap == Init /\ derived

NextMap ==
    \/ nops < MaxMapOps
       /\ \E v \in Vals, key \in Keys, blind \in BOOLEAN : PutValue(v, key, blind, FALSE)
    \/ nops < MaxMapOps
       /\ \E key \in Keys : DeleteKey(key)

SpecMap == InitMap /\ [][NextMap]_vars

\* C2: a collection that never holds a batch is a map from key to value.
\* Every put(v, key=K) makes get(K) return v and every delete(K) makes get(K)
\* return None, neither raises, and neither changes what get returns for any
\* other key; so get(K) is always the value of the latest put to K that no
\* delete(K) followed, and None when there is none.
C2_MapRefinement ==
    [][/\ last'.op \in {"put", "put_blind"} =>
            /\ last'.err = "none"
            /\ \A K \in Keys :
                  getv(engine', K) = IF K = last'.key THEN <<last'.val>> ELSE getv(engine, K)
       /\ last'.op = "delete" =>
            /\ last'.err = "none"
            /\ \A K \in Keys :
                  getv(engine', K) = IF K = last'.key THEN None ELSE getv(engine, K)]_vars

\* a delete(K) that removed a record while a record with a greater key stays
C2_Witness ==
    /\ last.op = "delete" /\ last.ret.some
    /\ getv(engine, last.key) = None
    /\ \E K \in Keys : SeqLt(last.key, K) /\ getv(engine, K) # None

(***************************************************************************)
(* SpecBatch: a list of records in ascending key order is written as one    *)
(* batch by _write_batch / _prepare_batch, then the collection is decoded   *)
(* by _logical_iter in either direction.                                    *)
(***************************************************************************)
\* the ascending lists of (key, value) pairs over the keys in S
AscendingLists(S) ==
    {l \in [1..Cardinality(S) -> S \X Vals] :
        \A i \in 1..(Cardinality(S) - 1) : SeqLt(l[i][1], l[i + 1][1])}

InitBatch ==
    /\ engine = [k \in {MetaKey} |-> <<1>>]
    /\ seek \in {"floor", "ceil"}
    /\ derived \in BOOLEAN
    /\ held = NoRec
    /\ last = Call("init", None, 0, NoRec, "none")
    /\ nops = 0
    /\ itr = NoItr
    /\ out = NoOut
    /\ rt \in UNION {AscendingLists(S) : S \in SUBSET Keys \ {{}}}
    /\ KeyedIdle

\* self._write_batch(txn, items, packer) with the records of rt
RtWrite ==
    /\ last.op = "init"
    /\ engine' = _write_batch(engine, [i \in 1..Len(rt) |->
                                  [key |-> rt[i][1], data |-> EncoderPack(rt[i][2])]])
    /\ last' = Call("write_batch", None, 0, NoRec, "none")
    /\ UNCHANGED <<seek, derived, held, nops, itr, out, rt, keyed, store, touched, callers, commits>>

\* list(self._logical_iter(engine.iter(start, reverse), reverse))
RtScan(reverse) ==
    /\ last.op # "init"
    /\ out' = [dir |-> IF reverse THEN "reverse" ELSE "forward",
               recs |-> KeyValuePairs(_logical_iter(
                           EngineIter(engine, IF reverse THEN next_greater(prefix) ELSE prefix,
                                      reverse),
                           reverse))]
    /\ last' = Call("scan", None, 0, NoRec, "none")
    /\ UNCHANGED <<engine, seek, derived, held, nops, itr, rt, keyed, store, touched, callers, commits>>

NextBatch ==
    \/ RtWrite
    \/ \E reverse \in BOOLEAN : RtScan(reverse)

SpecBatch == InitBatch /\ [][NextBatch]_vars

\* C7: batch round trip.  A list of records in ascending key order written as
\* a single batch decodes, by _logical_iter, to exactly that list on a forward
\* scan and to the reversed list on a reverse scan, every key with its own
\* value.
C7_BatchRoundTrip ==
    /\ out.dir = "forward" => out.recs = rt
    /\ out.dir = "reverse" => out.recs = Rev(rt)

\* a reverse scan of a batch of at least two records with different values
C7_Witness ==
    /\ out.dir = "reverse" /\ Len(rt) >= 2 /\ rt[1][2] # rt[2][2]
    /\ Len(out.recs) = Len(rt)

(***************************************************************************)
(* acid.iterators: Iterator and RangeIterator over a fixed engine.          *)
(***************************************************************************)
\* Key.prefix_bound: the key with its last element advanced
prefix_bound(key) == [key EXCEPT ![Len(key)] = key[Len(key)] + 1]

\* Key.to_raw(prefix)
to_raw(pfx, key) == pfx \o PackTuple(key)

\* Iterator.set_lo
set_lo(it, key, closed) ==
    [it EXCEPT !.lo = key, !.lo_pred = IF closed THEN "le" ELSE "lt"]

\* Iterator.set_hi
set_hi(it, key, closed) ==
    [it EXCEPT !.hi = key, !.hi_pred = IF closed THEN "ge" ELSE "gt"]

\* Iterator.set_prefix
set_prefix(it, key) == set_hi(set_lo(it, key, TRUE), prefix_bound(key), FALSE)

\* Iterator.set_max
set_max(it, max_) == [it EXCEPT !.remain = max_]

\* Iterator.set_exact
set_exact(it, key) ==
    [it EXCEPT !.lo = key, !.hi = key, !.lo_pred = "le", !.hi_pred = "ge"]

\* RangeIterator._step: the keys decoded at position pos of the engine
\* iterator, <<>> (None) past its end or outside the prefix
StepKeys(ents, pos) == IF pos <= Len(ents) THEN Unpacks(prefix, ents[pos][1]) ELSE <<>>

\* the yielding loop shared by forward() and reverse()
RECURSIVE YieldLoop(_, _, _, _, _)
YieldLoop(ents, pos, remain, p, bound) ==
    LET keys == StepKeys(ents, pos)
    IN  IF keys # <<>> /\ remain # 0 /\ ApplyPred(p, bound, keys[1])
        THEN <<ents[pos]>> \o YieldLoop(ents, pos + 1, remain - 1, p, bound)
        ELSE <<>>

\* forward() once self.it = self.engine.iter(key, False) is made
forward_from(ents, it) ==
    IF StepKeys(ents, 1) = <<>> THEN <<>>
    ELSE YieldLoop(ents,
                   IF ~ApplyPred(it.lo_pred, it.lo, StepKeys(ents, 1)[1]) THEN 2 ELSE 1,
                   it.remain, it.hi_pred, it.hi)

\* RangeIterator.forward: the (physical key, data) pairs yielded
forward(eng, it) ==
    forward_from(EngineIter(eng, IF it.lo = None THEN prefix ELSE to_raw(prefix, it.lo), FALSE),
                 it)

\* reverse() from position p1 of the engine iterator: 1, or 2 when the first
\* step left the prefix
reverse_at(ents, p1, it) ==
    IF StepKeys(ents, p1) = <<>> THEN <<>>
    ELSE YieldLoop(ents,
                   IF ~ApplyPred(it.hi_pred, it.hi, StepKeys(ents, p1)[1]) THEN p1 + 1 ELSE p1,
                   it.remain, it.lo_pred, it.lo)

\* reverse() once self.it = self.engine.iter(key, True) is made
reverse_from(ents, it) == reverse_at(ents, IF StepKeys(ents, 1) = <<>> THEN 2 ELSE 1, it)

\* RangeIterator.reverse
reverse(eng, it) ==
    reverse_from(EngineIter(eng,
                            IF it.hi = None THEN next_greater(prefix) ELSE to_raw(prefix, it.hi),
                            TRUE),
                 it)

(***************************************************************************)
(* SpecRange: a RangeIterator over the collection prefix of a fixed engine. *)
(* The engine holds records of the collection under one key, entries whose  *)
(* physical key packs two keys (index entries, batches), and entries of     *)
(* other prefixes below and above the collection.                           *)
(***************************************************************************)
RangeEntries ==
    {Packs(prefix, <<k>>) : k \in Keys}
    \cup {Packs(prefix, <<<<MaxKey>>, <<j>>>>) : j \in 1..2}
    \cup {Packs(idxPrefix, <<<<1>>>>)}

InitRange ==
    /\ \E S \in SUBSET RangeEntries :
          engine = [k \in S \cup {MetaKey} |-> IF k = MetaKey THEN <<1>> ELSE <<PlainPrefix, 65>>]
    /\ seek \in {"floor", "ceil"}
    /\ derived = TRUE
    /\ held = NoRec
    /\ last = Call("init", None, 0, NoRec, "none")
    /\ nops = 0
    /\ itr = NoItr
    /\ out = NoOut
    /\ rt = <<>>
    /\ KeyedIdle

\* the bounds are set before the iterator is run
Setter(it) ==
    /\ out = NoOut
    /\ itr # it
    /\ itr' = it
    /\ UNCHANGED <<engine, seek, derived, held, last, nops, out, rt,
                   keyed, store, touched, callers, commits>>

SetLo(key, closed) == Setter(set_lo(itr, key, closed))

SetHi(key, closed) == Setter(set_hi(itr, key, closed))

SetPrefix(key) == Setter(set_prefix(itr, key))

SetExact(key) == Setter(set_exact(itr, key))

SetMax(max_) == Setter(set_max(itr, max_))

\* list(it.forward())
Forward ==
    /\ out' = [dir |-> "forward", recs |-> forward(engine, itr)]
    /\ UNCHANGED <<engine, seek, derived, held, last, nops, itr, rt,
                   keyed, store, touched, callers, commits>>

\* list(it.reverse())
Reverse ==
    /\ out' = [dir |-> "reverse", recs |-> reverse(engine, itr)]
    /\ UNCHANGED <<engine, seek, derived, held, last, nops, itr, rt,
                   keyed, store, touched, callers, commits>>

\* from_args: the iterator as the arguments leave it, with the direction run
\* and what it yields; an argument that is None, or a max_ of 0, is skipped by
\* its truth test
from_args_set(it, key, lo, hi, pfx, max_, include) ==
    LET ranged == IF key # None THEN set_exact(it, key)
                  ELSE IF pfx # None THEN set_prefix(it, pfx)
                  ELSE LET a == IF lo # None THEN set_lo(it, lo, TRUE) ELSE it
                       IN  IF hi # None THEN set_hi(a, hi, include) ELSE a
    IN  IF key = None /\ max_ # NoInt /\ max_ # 0 THEN set_max(ranged, max_) ELSE ranged

from_args(eng, it, key, lo, hi, pfx, rev, max_, include) ==
    LET set == from_args_set(it, key, lo, hi, pfx, max_, include)
    IN  IF key = None /\ rev
        THEN [itr |-> set, dir |-> "reverse", recs |-> reverse(eng, set)]
        ELSE [itr |-> set, dir |-> "forward", recs |-> forward(eng, set)]

\* the argument lists from_args is called with
FromArgsInputs ==
    [key : Keys, lo : {None}, hi : {None}, pfx : {None}, rev : BOOLEAN,
     max_ : {NoInt} \cup (0..MaxKey), include : {FALSE}]
    \cup [key : {None}, lo : {None}, hi : {None}, pfx : Keys, rev : BOOLEAN,
          max_ : {NoInt} \cup (0..MaxKey), include : {FALSE}]
    \cup [key : {None}, lo : Keys \cup {None}, hi : Keys \cup {None}, pfx : {None},
          rev : BOOLEAN, max_ : {NoInt} \cup (0..MaxKey), include : BOOLEAN]

\* list(from_args(RangeIterator(engine, prefix), key, lo, hi, prefix, reverse,
\* max_, include, None))
FromArgs(a) ==
    /\ out = NoOut
    /\ itr = NoItr
    /\ LET r == from_args(engine, itr, a.key, a.lo, a.hi, a.pfx, a.rev, a.max_, a.include)
       IN  /\ itr' = r.itr
           /\ out' = [dir |-> r.dir, recs |-> r.recs]
    /\ UNCHANGED <<engine, seek, derived, held, last, nops, rt,
                   keyed, store, touched, callers, commits>>

NextRange ==
    \/ \E a \in FromArgsInputs : FromArgs(a)
    \/ \E key \in Keys, closed \in BOOLEAN : SetLo(key, closed)
    \/ \E key \in Keys, closed \in BOOLEAN : SetHi(key, closed)
    \/ \E key \in Keys : SetPrefix(key)
    \/ \E key \in Keys : SetExact(key)
    \/ \E max_ \in 0..MaxKey : SetMax(max_)
    \/ Forward
    \/ Reverse

SpecRange == InitRange /\ [][NextRange]_vars

\* C9: with any bounds, open or closed, and no result cap, what reverse()
\* yields is what forward() yields, reversed.
C9_ReverseOfForward ==
    itr.remain = NoInt => reverse(engine, itr) = Rev(forward(engine, itr))

(***************************************************************************)
(* What a scan of the collection is to yield: the entries of the prefix     *)
(* selected by their key (the first key packed in the physical key).        *)
(***************************************************************************)
\* the entries of the collection prefix, in ascending order of physical key
CollEntries(eng) == EngineEntries(eng, SortSeqs({k \in DOMAIN eng : HasPrefix(prefix, k)}))

\* the key of an entry as RangeIterator.key gives it: keys[0]
EntryKey(ent) == Unpacks(prefix, ent[1])[1]

RECURSIVE SelectEntries(_, _, _, _, _)
SelectEntries(ents, lp, lo, hp, hi) ==
    IF ents = <<>> THEN <<>>
    ELSE (IF ApplyPred(lp, lo, EntryKey(ents[1])) /\ ApplyPred(hp, hi, EntryKey(ents[1]))
          THEN <<ents[1]>> ELSE <<>>)
         \o SelectEntries(Tail(ents), lp, lo, hp, hi)

\* the entries whose key satisfies both bounds of the iterator
InBounds(eng, it) == SelectEntries(CollEntries(eng), it.lo_pred, it.lo, it.hi_pred, it.hi)

\* C11: forward() yields exactly the entries whose key satisfies both bounds
\* (>= lo or > lo, < hi or <= hi, an unset bound not restricting), each once,
\* in ascending order.
C11_ForwardBounds ==
    (out.dir = "forward" /\ itr.remain = NoInt) => out.recs = InBounds(engine, itr)

\* the iterator is as set_exact(K) leaves it, with no result cap
IsExact(it, K) == it = set_exact(NoItr, K)

\* the entries of the collection whose key is K
EntriesAt(eng, K) == SelectEntries(CollEntries(eng), "le", K, "ge", K)

\* C12: after set_exact(K) the cursor yields 0 or 1 items: exactly 1, with key
\* K, when an entry with key K exists, and 0 otherwise.
C12_ExactOneOrNone ==
    \A K \in Keys :
        (out.dir = "forward" /\ IsExact(itr, K)) =>
            /\ Len(out.recs) <= 1
            /\ Len(out.recs) = 1 <=> EntriesAt(engine, K) # <<>>
            /\ \A i \in 1..Len(out.recs) : EntryKey(out.recs[i]) = K

RECURSIVE WithPrefix(_, _)
WithPrefix(ents, K) ==
    IF ents = <<>> THEN <<>>
    ELSE (IF HasPrefix(K, EntryKey(ents[1])) THEN <<ents[1]>> ELSE <<>>)
         \o WithPrefix(Tail(ents), K)

\* the entries of the collection whose key has the tuple K as a prefix
PrefixEntries(eng, K) == WithPrefix(CollEntries(eng), K)

\* C13: after set_prefix(K), forward() yields exactly the entries whose key
\* has K as a prefix, ascending, and reverse() the same entries descending;
\* an entry at or beyond K's prefix bound is never yielded.
C13_PrefixScan ==
    \A K \in Keys :
        itr = set_prefix(NoItr, K) =>
            /\ out.dir = "forward" => out.recs = PrefixEntries(engine, K)
            /\ out.dir = "reverse" => out.recs = Rev(PrefixEntries(engine, K))

(***************************************************************************)
(* Store.count: the counters of the store, records of the '\x00counters'    *)
(* collection (KEY_ENCODER values, keyed by ITEMGETTER_0, no index).        *)
(***************************************************************************)
MaxNames == 2       \* counter names are 1 .. MaxNames
MaxDelta == 2       \* count() is called with n in 0 .. MaxDelta
MaxInit == 2        \* count() is called with init in 1 .. MaxInit

KIND_TEXT == 50
CounterIdx == 1         \* _idx of the '\x00counters' collection

CounterNames == 1..MaxNames

\* a string element of a key: KIND_TEXT and the string (one byte names it)
PackText(name) == <<KIND_TEXT, name>>

\* Collection.prefix of the counters collection
CounterPrefix == PackInt(CounterIdx)

\* keycoder.packs(self.prefix, (name,)): the physical key of a counter
CounterKey(name) == CounterPrefix \o PackText(name)

\* KEY_ENCODER.pack / KEY_ENCODER.unpack of the tuple (name, value)
KeyEncoderPack(t) == PackText(t[1]) \o <<KIND_INTEGER>> \o PackInt(t[2])

KeyEncoderUnpack(s) == <<s[2], s[4]>>

\* _logical_iter on the counters collection: the first logical record, if
\* any (a counter is never part of a batch)
CounterFirst(it) ==
    IF it = <<>> THEN <<>>
    ELSE IF ~HasPrefix(CounterPrefix, it[1][1])
    THEN IF Len(it) >= 2 /\ Unpacks(CounterPrefix, it[2][1]) # <<>>
         THEN <<[key |-> Unpacks(CounterPrefix, it[2][1])[1], data |-> _decompress(it[2][2])]>>
         ELSE <<>>
    ELSE <<[key |-> Unpacks(CounterPrefix, it[1][1])[1], data |-> _decompress(it[1][2])]>>

\* the Record get(name, default, rec=True) makes of what the scan found
CounterRecord(it, name, default) ==
    IF it # <<>> /\ ApplyPred("ge", tuplize(name), it[1].key)
    THEN [data |-> KeyEncoderUnpack(it[1].data), key |-> tuplize(name)]
    ELSE [data |-> default, key |-> None]

\* self._counter_coll.get(name, default, rec=True)
counter_get(eng, name, default) ==
    CounterRecord(CounterFirst(EngineIter(eng, CounterKey(name), FALSE)), name, default)

\* count()'s write made unconditional: the record is written for n = 0 too
count_write_always(eng, rec, name, n) ==
    [eng |-> EnginePut(eng, CounterKey(name),
                       PackInt(PlainPrefix)
                           \o PackerPack(KeyEncoderPack(<<name, rec.data[2] + n>>))),
     ops |-> <<<<"put", CounterKey(name)>>>>]

\* the 'if n:' block of count(): self._counter_coll.put(rec) with the new
\* data; the key is the Record's own, or ITEMGETTER_0 of the data
count_write(eng, rec, name, n) ==
    IF n # 0
    THEN [eng |-> EnginePut(eng,
                            IF rec.key # None THEN CounterPrefix \o PackText(rec.key[1])
                            ELSE CounterKey(name),
                            PackInt(PlainPrefix)
                                \o PackerPack(KeyEncoderPack(<<name, rec.data[2] + n>>))),
          ops |-> <<<<"put", IF rec.key # None THEN CounterPrefix \o PackText(rec.key[1])
                             ELSE CounterKey(name)>>>>]
    ELSE [eng |-> eng, ops |-> <<>>]

\* count() returning the value it stored instead of the previous one
count_from_new_value(eng, name, n, rec) ==
    [eng |-> count_write(eng, rec, name, n).eng,
     ret |-> rec.data[2] + n,
     ops |-> <<<<"iter", CounterKey(name)>>>> \o count_write(eng, rec, name, n).ops]

\* count() once the Record is fetched
count_from(eng, name, n, rec) ==
    [eng |-> count_write(eng, rec, name, n).eng,
     ret |-> rec.data[2],
     ops |-> <<<<"iter", CounterKey(name)>>>> \o count_write(eng, rec, name, n).ops]

\* Store.count(name, n, init): the engine afterwards, the value returned and
\* the engine calls made
count(eng, name, n, init) == count_from(eng, name, n, counter_get(eng, name, <<name, init>>))

(***************************************************************************)
(* SpecCount: sequential calls of Store.count on a store whose engine also  *)
(* holds entries of other collections.                                      *)
(***************************************************************************)
CountCall(name, n, init, ret) ==
    [op |-> "count", name |-> name, n |-> n, init |-> init, ret |-> ret]

InitCount ==
    /\ \E S \in SUBSET {Packs(prefix, <<<<1>>>>)} :
          engine = [k \in S \cup {MetaKey} |-> IF k = MetaKey THEN <<1>> ELSE <<PlainPrefix, 65>>]
    /\ seek \in {"floor", "ceil"}
    /\ derived = FALSE
    /\ held = NoRec
    /\ last = Call("init", None, 0, NoRec, "none")
    /\ nops = 0
    /\ itr = NoItr
    /\ out = NoOut
    /\ rt = <<>>
    /\ KeyedIdle

\* store.count(name, n, init)
Count(name, n, init) ==
    /\ nops < MaxOps
    /\ \E r \in {count(engine, name, n, init)} :
          /\ engine' = r.eng
          /\ last' = CountCall(name, n, init, r.ret)
          /\ touched' = r.ops
    /\ nops' = nops + 1
    /\ UNCHANGED <<seek, derived, held, itr, out, rt, keyed, store, callers, commits>>

NextCount == \E name \in CounterNames, n \in 0..MaxDelta, init \in 1..MaxInit : Count(name, n, init)

SpecCount == InitCount /\ [][NextCount]_vars

\* whether the counter exists, and its stored value
HasCounter(eng, name) == CounterKey(name) \in DOMAIN eng

StoredCounter(eng, name) == KeyEncoderUnpack(Tail(eng[CounterKey(name)]))[2]

\* C14: count(name, n, init) returns the counter's value before the call (init
\* when the counter did not exist) and, for n # 0, stores that value plus n;
\* the next call on the same counter returns what was stored, so successive
\* calls count(name) return init, init + 1, init + 2, ...
C14_CountSequence ==
    [][(last'.op = "count" /\ nops' = nops + 1) =>
          /\ last'.ret = IF HasCounter(engine, last'.name)
                         THEN StoredCounter(engine, last'.name) ELSE last'.init
          /\ last'.n # 0 =>
                /\ HasCounter(engine', last'.name)
                /\ StoredCounter(engine', last'.name) = last'.ret + last'.n
          /\ \A name \in CounterNames \ {last'.name} :
                /\ HasCounter(engine', name) = HasCounter(engine, name)
                /\ HasCounter(engine, name) =>
                      StoredCounter(engine', name) = StoredCounter(engine, name)
          /\ (last.op = "count" /\ last.name = last'.name /\ last.n # 0) =>
                last'.ret = last.ret + last.n]_vars

\* a call count(name) on a counter that earlier calls created and advanced
\* by 2: it returns init + 2
C14_Witness ==
    /\ last.op = "count" /\ last.n = 1
    /\ last.ret = last.init + 2
    /\ StoredCounter(engine, last.name) = last.init + 3

\* C15: count(name, n=0) returns the current value of the counter (init when
\* it does not exist) and issues no engine write: the engine, including
\* whether the counter record exists, is unchanged.
C15_CountZeroReads ==
    [][(last'.op = "count" /\ nops' = nops + 1 /\ last'.n = 0) =>
          /\ last'.ret = IF HasCounter(engine, last'.name)
                         THEN StoredCounter(engine, last'.name) ELSE last'.init
          /\ engine' = engine
          /\ \A i \in 1..Len(touched') : touched'[i][1] = "iter"]_vars

\* count(name, 0, init) was called on a counter that does not exist, with an
\* init other than the default: init is returned and no record is created
C15_Witness ==
    /\ last.op = "count" /\ last.n = 0 /\ last.init = MaxInit /\ last.ret = MaxInit
    /\ ~HasCounter(engine, last.name)
    /\ nops >= 2

(***************************************************************************)
(* SpecConc: several callers inside Store.count(name) at once.  count()     *)
(* takes no lock and opens no transaction: with txn=None its get() and its  *)
(* put() are two separate calls of the engine, and another caller's calls   *)
(* may come between them.                                                   *)
(***************************************************************************)
MaxCallers == 2     \* callers that may be inside count() at the same time

Callers == 1..MaxCallers

\* a caller outside count()
IdleCaller == [pc |-> "idle", name |-> 0, rec |-> [data |-> <<0, 0>>, key |-> None]]

InitConc ==
    /\ engine = [k \in {MetaKey} |-> <<1>>]
    /\ seek \in {"floor", "ceil"}
    /\ derived = FALSE
    /\ held = NoRec
    /\ last = Call("init", None, 0, NoRec, "none")
    /\ nops = 0
    /\ itr = NoItr
    /\ out = NoOut
    /\ rt = <<>>
    /\ keyed = TRUE
    /\ store = NewStore
    /\ touched = <<>>
    /\ callers = [p \in Callers |-> IdleCaller]
    /\ commits = <<>>

\* caller p enters count(name) and runs rec = self._counter_coll.get(...)
CountGet(p, name) ==
    /\ nops < MaxOps
    /\ callers[p].pc = "idle"
    /\ callers' = [callers EXCEPT ![p] = [pc |-> "got", name |-> name,
                                          rec |-> counter_get(engine, name, <<name, 1>>)]]
    /\ touched' = <<<<"iter", CounterKey(name)>>>>
    /\ nops' = nops + 1
    /\ UNCHANGED <<engine, seek, derived, held, last, itr, out, rt, keyed, store, commits>>

\* caller p runs self._counter_coll.put(rec) and returns val
CountPut(p) ==
    /\ callers[p].pc = "got"
    /\ \E w \in {count_write(engine, callers[p].rec, callers[p].name, 1)} :
          /\ engine' = w.eng
          /\ touched' = w.ops
    /\ commits' = Append(commits, <<callers[p].name, callers[p].rec.data[2]>>)
    /\ last' = CountCall(callers[p].name, 1, 1, callers[p].rec.data[2])
    /\ callers' = [callers EXCEPT ![p] = IdleCaller]
    /\ UNCHANGED <<seek, derived, held, nops, itr, out, rt, keyed, store>>

NextConc ==
    \/ \E p \in Callers, name \in CounterNames : CountGet(p, name)
    \/ \E p \in Callers : CountPut(p)

SpecConc == InitConc /\ [][NextConc]_vars

\* the values returned for the counter name, in the order of their writes
RECURSIVE ReturnedFor(_, _)
ReturnedFor(name, cs) ==
    IF cs = <<>> THEN <<>>
    ELSE (IF cs[1][1] = name THEN <<cs[1][2]>> ELSE <<>>) \o ReturnedFor(name, Tail(cs))

\* C16: the values concurrent callers of count(name) receive, in the order in
\* which their writes reach the engine, are init, init + 1, init + 2, ...:
\* strictly increasing, without gaps, no value handed out twice.
C16_ConcurrentCount ==
    \A name \in CounterNames :
        \A i \in 1..Len(ReturnedFor(name, commits)) : ReturnedFor(name, commits)[i] = i

(***************************************************************************)
(* A collection without indices.  Created without a key function it takes   *)
(* its keys from the store counter 'key:<name>' (txn_key_func), with         *)
(* derived_keys = False and blind = True.                                   *)
(***************************************************************************)
\* counter_name: the counter 'key:<name>' of the collection
KeyCounter == 1

\* obj_key = key or self._reassign_key(rec, txn), for a key function that
\* draws from the counter instead of reading the value: the key without
\* consuming a counter value
assign_key_peek(eng, rec, key) ==
    IF key # None THEN [key |-> key, eng |-> eng, ops |-> <<>>, counted |-> <<>>]
    ELSE IF rec.key # None /\ ~derived
    THEN [key |-> rec.key, eng |-> eng, ops |-> <<>>, counted |-> <<>>]
    ELSE IF ~keyed
    THEN [key |-> tuplize(count(eng, KeyCounter, 0, 1).ret),
          eng |-> count(eng, KeyCounter, 0, 1).eng,
          ops |-> count(eng, KeyCounter, 0, 1).ops,
          counted |-> <<<<KeyCounter, count(eng, KeyCounter, 0, 1).ret>>>>]
    ELSE [key |-> tuplize(key_func(rec.data)), eng |-> eng, ops |-> <<>>, counted |-> <<>>]

\* obj_key = key or self._reassign_key(rec, txn): the key, the engine after
\* the counter was advanced, the engine calls made and the value counted
assign_key(eng, rec, key) ==
    IF key # None THEN [key |-> key, eng |-> eng, ops |-> <<>>, counted |-> <<>>]
    ELSE IF rec.key # None /\ ~derived
    THEN [key |-> rec.key, eng |-> eng, ops |-> <<>>, counted |-> <<>>]
    ELSE IF ~keyed
    THEN [key |-> tuplize(count(eng, KeyCounter, 1, 1).ret),
          eng |-> count(eng, KeyCounter, 1, 1).eng,
          ops |-> count(eng, KeyCounter, 1, 1).ops,
          counted |-> <<<<KeyCounter, count(eng, KeyCounter, 1, 1).ret>>>>]
    ELSE [key |-> tuplize(key_func(rec.data)), eng |-> eng, ops |-> <<>>, counted |-> <<>>]

\* Collection.get(key, rec=True) where self.indices is empty, and its engine
\* call
plain_get(eng, key) == [get(eng, key) EXCEPT !.index_keys = <<>>]

plain_get_ops(key) == <<<<"iter", Packs(prefix, <<key>>)>>>>

\* Collection.delete(key) where self.indices is empty
plain_delete_rec(eng, rec, key) ==
    IF rec.some /\ rec.key # None
    THEN IF rec.batch
         THEN [eng |-> eng, ret |-> NoRec, err |-> "AssertionError", ops |-> plain_get_ops(key)]
         ELSE [eng |-> EngineDelete(eng, Packs(prefix, <<rec.key>>)),
               ret |-> Record(rec.data, None, FALSE, <<>>), err |-> "none",
               ops |-> plain_get_ops(key) \o <<<<"delete", Packs(prefix, <<rec.key>>)>>>>]
    ELSE [eng |-> eng, ret |-> NoRec, err |-> "none", ops |-> plain_get_ops(key)]

plain_delete(eng, key) == plain_delete_rec(eng, plain_get(eng, key), key)

\* put() made to look for an old record under obj_key although the
\* collection has no index
plain_purge_checked(eng, rec, obj_key) ==
    IF rec.key # None
    THEN IF rec.batch THEN [eng |-> eng, ops |-> <<>>, err |-> "AssertionError"]
         ELSE IF rec.key # obj_key
         THEN [eng |-> EngineDelete(eng, Packs(prefix, <<rec.key>>)),
               ops |-> <<<<"delete", Packs(prefix, <<rec.key>>)>>>>, err |-> "none"]
         ELSE [eng |-> eng, ops |-> <<>>, err |-> "none"]
    ELSE [eng |-> plain_delete(eng, obj_key).eng, ops |-> plain_delete(eng, obj_key).ops,
          err |-> plain_delete(eng, obj_key).err]

\* put(), lines 898-911, where self.indices is empty: a Record whose key
\* changes has its old physical key deleted; nothing is looked up or deleted
\* for a new value
plain_purge(eng, rec, obj_key) ==
    IF rec.key # None
    THEN IF rec.batch THEN [eng |-> eng, ops |-> <<>>, err |-> "AssertionError"]
         ELSE IF rec.key # obj_key
         THEN [eng |-> EngineDelete(eng, Packs(prefix, <<rec.key>>)),
               ops |-> <<<<"delete", Packs(prefix, <<rec.key>>)>>>>, err |-> "none"]
         ELSE [eng |-> eng, ops |-> <<>>, err |-> "none"]
    ELSE [eng |-> eng, ops |-> <<>>, err |-> "none"]

\* put(), lines 913-924
plain_write(rec, k, old) ==
    IF old.err # "none"
    THEN [eng |-> k.eng, rec |-> rec, ret |-> NoRec, err |-> old.err,
          ops |-> k.ops \o old.ops, counted |-> k.counted]
    ELSE [eng |-> EnginePut(old.eng, Packs(prefix, <<k.key>>),
                            PackInt(PlainPrefix) \o PackerPack(EncoderPack(rec.data))),
          rec |-> Record(rec.data, k.key, rec.batch, <<>>),
          ret |-> Record(rec.data, k.key, rec.batch, <<>>),
          err |-> "none",
          ops |-> k.ops \o old.ops \o <<<<"put", Packs(prefix, <<k.key>>)>>>>,
          counted |-> k.counted]

\* put() once obj_key is assigned
plain_put_at(rec, k) == plain_write(rec, k, plain_purge(k.eng, rec, k.key))

\* Collection.put(rec, key=key) on a collection without indices
plain_put(eng, rec, key) == plain_put_at(rec, assign_key(eng, rec, key))

(***************************************************************************)
(* SpecPlain: put / get / delete on a collection without indices, created   *)
(* with a key function (keyed) or without one (keys from the counter).      *)
(***************************************************************************)
InitPlain ==
    /\ engine = [k \in {MetaKey} |-> <<1>>]
    /\ seek \in {"floor", "ceil"}
    /\ keyed \in BOOLEAN
    /\ store = NewStore
    /\ derived \in (IF keyed THEN BOOLEAN ELSE {FALSE})
    /\ held = NoRec
    /\ last = Call("init", None, 0, NoRec, "none")
    /\ nops = 0
    /\ itr = NoItr
    /\ out = NoOut
    /\ rt = <<>>
    /\ touched = <<>>
    /\ callers = <<>>
    /\ commits = <<>>

PlainFrame == UNCHANGED <<seek, derived, itr, out, rt, keyed, store, callers>>

\* coll.put(v) or coll.put(v, key=key); the caller keeps the Record or not
PlainPut(v, key, keep) ==
    /\ nops < MaxOps
    /\ \E r \in {plain_put(engine, Record(v, None, FALSE, <<>>), key)} :
          /\ engine' = r.eng
          /\ held' = IF keep /\ r.err = "none" THEN r.ret ELSE held
          /\ last' = Call(IF key # None THEN "put_key" ELSE "put", key, v, r.ret, r.err)
          /\ touched' = r.ops
          /\ commits' = commits \o r.counted
    /\ nops' = nops + 1
    /\ PlainFrame

\* held.data = v; coll.put(held)
PlainPutHeld(v) ==
    /\ nops < MaxOps
    /\ held.some
    /\ \E r \in {plain_put(engine, [held EXCEPT !.data = v], None)} :
          /\ engine' = r.eng
          /\ held' = r.rec
          /\ last' = Call("put_rec", held.key, v, r.ret, r.err)
          /\ touched' = r.ops
          /\ commits' = commits \o r.counted
    /\ nops' = nops + 1
    /\ PlainFrame

\* held = coll.get(key, rec=True)
PlainGet(key) ==
    /\ nops < MaxOps
    /\ \E r \in {plain_get(engine, key)} :
          /\ held' = r
          /\ last' = Call("get", key, 0, r, "none")
    /\ touched' = plain_get_ops(key)
    /\ nops' = nops + 1
    /\ UNCHANGED <<engine, commits>>
    /\ PlainFrame

\* coll.delete(key)
PlainDelete(key) ==
    /\ nops < MaxOps
    /\ \E r \in {plain_delete(engine, key)} :
          /\ engine' = r.eng
          /\ last' = Call("delete", key, 0, r.ret, r.err)
          /\ touched' = r.ops
    /\ nops' = nops + 1
    /\ UNCHANGED <<held, commits>>
    /\ PlainFrame

NextPlain ==
    \/ \E v \in Vals, key \in Keys \cup {None}, keep \in BOOLEAN : PlainPut(v, key, keep)
    \/ \E v \in Vals : PlainPutHeld(v)
    \/ \E key \in Keys : PlainGet(key)
    \/ \E key \in Keys : PlainDelete(key)

SpecPlain == InitPlain /\ [][NextPlain]_vars

\* the keys of the records stored in the collection
StoredKeys(eng) == {r.key : r \in Stored(eng)}

\* C17: without a key function each put of a new value gets the next counter
\* value as a 1-tuple key: the k-th such put gets (k,), it overwrites no
\* record of an earlier such put, and n such puts alone leave exactly the n
\* records (1,) .. (n,).
C17_CounterKeys ==
    [][(last'.op = "put" /\ nops' = nops + 1 /\ ~keyed) =>
          /\ last'.err = "none"
          /\ last'.ret.key = <<Len(commits) + 1>>
          /\ commits' = Append(commits, <<KeyCounter, Len(commits) + 1>>)
          /\ getv(engine', <<Len(commits) + 1>>) = <<last'.val>>
          /\ \A i \in 1..Len(commits) : getv(engine', <<i>>) = getv(engine, <<i>>)
          /\ nops' = Len(commits') =>
                /\ StoredKeys(engine') = {<<i>> : i \in 1..nops'}
                /\ Cardinality(Stored(engine')) = nops']_vars

\* three puts of new values and nothing else: the third got (3,), and the
\* records (1,), (2,), (3,) are stored
C17_Witness ==
    /\ ~keyed /\ last.op = "put" /\ nops = 3 /\ Len(commits) = 3
    /\ last.ret.key = <<3>>
    /\ StoredKeys(engine) = {<<1>>, <<2>>, <<3>>}

\* the last call was a put() of the collection without indices
IsPlainPut(c) == c.op \in {"put", "put_key", "put_rec"}

CounterCalls(c) ==
    IF c.op = "put" /\ ~keyed
    THEN <<<<"iter", CounterKey(KeyCounter)>>, <<"put", CounterKey(KeyCounter)>>>>
    ELSE <<>>

OldKeyCalls(c, rec) ==
    IF c.op = "put_rec" /\ rec.key # None /\ rec.key # c.ret.key
    THEN <<<<"delete", Packs(prefix, <<rec.key>>)>>>>
    ELSE <<>>

\* the engine keys a sequence of engine calls writes or deletes
Written(ops) == {ops[i][2] : i \in {j \in 1..Len(ops) : ops[j][1] # "iter"}}

MaxMoveVal == 3     \* values of SpecMove are 1 .. MaxMoveVal; key_func(3) = 2

InitMove == Init /\ derived

NextMove ==
    \/ \E v \in 1..MaxMoveVal, key \in Keys \cup {None}, keep \in BOOLEAN :
          PutValue(v, key, FALSE, keep)
    \/ \E key \in Keys : GetRec(key)
    \/ \E v \in 1..MaxMoveVal : PutHeld(v, None)
    \/ \E key \in Keys : DeleteKey(key)

SpecMove == InitMove /\ [][NextMove]_vars

\* the step puts the held Record, stored under the key derived from its
\* value, with a new value v whose derived key differs
MovesKey(rec, c) ==
    /\ c.op = "put_rec"
    /\ rec.key # None
    /\ rec.key = tuplize(key_func(rec.data))
    /\ tuplize(key_func(c.val)) # rec.key

\* C18: with derived_keys and an index, a Record fetched from the collection,
\* modified so that its derived key changes and put again, loses its old
\* physical key and all its old index entries; the record is present under
\* the new key and the index holds exactly the entries of the new value for
\* that key.
C18_DerivedKeyMove ==
    [][(MovesKey(held, last') /\ nops' = nops + 1 /\ HeldFresh) =>
          /\ last'.err = "none"
          /\ ~Live(engine', held.key)
          /\ \A e \in Range(held.index_keys) : e \notin DOMAIN engine'
          /\ getv(engine', tuplize(key_func(last'.val))) = <<last'.val>>
          /\ IndexEntries(engine', tuplize(key_func(last'.val)))
                = Range(_index_keys(tuplize(key_func(last'.val)), last'.val))]_vars

(***************************************************************************)
(* SpecKeep: the collection with derived_keys = False, already holding the  *)
(* records put(1, key=(1,)) and put(1, key=(2,)) stored.                    *)
(***************************************************************************)
\* the engine after coll.put(v, key=key) on the engine eng
AfterPut(eng, v, key) == put(eng, Record(v, None, FALSE, <<>>), key, FALSE).eng

InitKeep ==
    /\ engine = AfterPut(AfterPut([k \in {MetaKey} |-> <<1>>], 1, <<1>>), 1, <<2>>)
    /\ seek \in {"floor", "ceil"}
    /\ derived = FALSE
    /\ held = NoRec
    /\ last = Call("init", None, 0, NoRec, "none")
    /\ nops = 0
    /\ itr = NoItr
    /\ out = NoOut
    /\ rt = <<>>
    /\ KeyedIdle

SpecKeep == InitKeep /\ [][Next]_vars

\* C19: with derived_keys = False, put of a Record that carries a key (as
\* returned by get or put, and still what get returns), without explicit key,
\* writes the record back under that key and leaves the number of records of
\* the collection unchanged.
C19_KeyReused ==
    [][(/\ last'.op = "put_rec" /\ nops' = nops + 1
        /\ ~derived /\ held.key # None /\ HeldFresh) =>
          /\ last'.err = "none"
          /\ last'.ret.key = held.key
          /\ getv(engine', held.key) = <<last'.val>>
          /\ Cardinality(Stored(engine')) = Cardinality(Stored(engine))]_vars

(***************************************************************************)
(* The engine calls of get(), delete() and put(), in the order the code     *)
(* makes them, each with the object it is made on: the transaction handle   *)
(* or the engine itself.                                                    *)
(***************************************************************************)
\* `txn or self.engine`
Handle(txn) == IF txn THEN "txn" ELSE "engine"

\* one call iter(key) / put(key, val) / delete(key) on a handle
EngineCall(op, key, val, txn) == [op |-> op, key |-> key, val |-> val, via |-> Handle(txn)]

\* for k in ks: <handle>.<op>(k, val)
CallEach(op, ks, val, txn) == [i \in 1..Len(ks) |-> EngineCall(op, ks[i], val, txn)]

\* Collection.get(key, rec=True, txn=txn): _iter() opens one engine iterator
get_calls(key, txn) == <<EngineCall("iter", Packs(prefix, <<key>>), <<>>, txn)>>

\* Collection.delete(rec, txn), lines 960-965
delete_rec_calls(rec, txn) ==
    IF rec.some /\ rec.key # None /\ ~rec.batch
    THEN <<EngineCall("delete", Packs(prefix, <<rec.key>>), <<>>, txn)>>
         \o CallEach("delete", rec.index_keys, <<>>, txn)
    ELSE <<>>

\* Collection.delete(key, txn): line 959 looks the record up with
\* self.get(obj, rec=True), which is given no txn
delete_calls(eng, key, txn) == get_calls(key, FALSE) \o delete_rec_calls(get(eng, key), txn)

\* put(), lines 898-911: self.delete(obj_key) of line 911 is given no txn
put_purge_calls(eng, rec, blind, obj_key, index_keys, txn) ==
    IF rec.key # None
    THEN IF rec.batch THEN <<>>
         ELSE (IF rec.key # obj_key
               THEN <<EngineCall("delete", Packs(prefix, <<rec.key>>), <<>>, txn)>>
               ELSE <<>>)
              \o (IF index_keys # rec.index_keys
                  THEN CallEach("delete", rec.index_keys, <<>>, txn)
                  ELSE <<>>)
    ELSE IF ~blind THEN delete_calls(eng, obj_key, FALSE)
    ELSE <<>>

\* put(), lines 913-920
put_write_calls(rec, obj_key, index_keys, txn) ==
    <<EngineCall("put", Packs(prefix, <<obj_key>>),
                 PackInt(PlainPrefix) \o PackerPack(EncoderPack(rec.data)), txn)>>
    \o CallEach("put", index_keys, <<>>, txn)

\* put() made to write the new record and index entries first and to remove
\* the old ones afterwards
put_calls_at_write_first(eng, rec, blind, obj_key, txn) ==
    IF put_at(eng, rec, blind, obj_key).err # "none"
    THEN put_purge_calls(eng, rec, blind, obj_key, _index_keys(obj_key, rec.data), txn)
    ELSE put_write_calls(rec, obj_key, _index_keys(obj_key, rec.data), txn)
         \o put_purge_calls(eng, rec, blind, obj_key, _index_keys(obj_key, rec.data), txn)

\* put() once obj_key is known: the calls up to the exception, or all of them
put_calls_at(eng, rec, blind, obj_key, txn) ==
    IF put_at(eng, rec, blind, obj_key).err # "none"
    THEN put_purge_calls(eng, rec, blind, obj_key, _index_keys(obj_key, rec.data), txn)
    ELSE put_purge_calls(eng, rec, blind, obj_key, _index_keys(obj_key, rec.data), txn)
         \o put_write_calls(rec, obj_key, _index_keys(obj_key, rec.data), txn)

\* Collection.put(rec, txn, key=key, blind=blind)
put_calls(eng, rec, key, blind, txn) ==
    put_calls_at(eng, rec, blind, IF key # None THEN key ELSE _reassign_key(rec), txn)

\* the engine after the calls were made on it one after another
RECURSIVE Replay(_, _)
Replay(eng, calls) ==
    IF calls = <<>> THEN eng
    ELSE Replay(IF calls[1].op = "put" THEN EnginePut(eng, calls[1].key, calls[1].val)
                ELSE IF calls[1].op = "delete" THEN EngineDelete(eng, calls[1].key)
                ELSE eng,
                Tail(calls))

(***************************************************************************)
(* SpecTxn: put / get / delete on the indexed collection, each call made    *)
(* with a transaction handle or without one; touched holds the engine calls *)
(* of the last put, get or delete.                                          *)
(***************************************************************************)
TxnCall(op, key, val, ret, err, txn) ==
    [op |-> op, key |-> key, val |-> val, ret |-> ret, err |-> err, txn |-> txn]

InitTxn ==
    /\ engine = [k \in {MetaKey} |-> <<1>>]
    /\ seek = "floor"                    \* no call made here iterates in reverse
    /\ derived \in BOOLEAN
    /\ held = NoRec
    /\ last = TxnCall("init", None, 0, NoRec, "none", FALSE)
    /\ nops = 0
    /\ itr = NoItr
    /\ out = NoOut
    /\ rt = <<>>
    /\ keyed = TRUE
    /\ store = NewStore
    /\ touched = <<>>
    /\ callers = <<>>
    /\ commits = <<>>

TxnFrame == UNCHANGED <<seek, derived, itr, out, rt, keyed, store, callers, commits>>

\* rec = coll.put(v, txn, key=key, blind=blind); the caller holds the Record
\* returned
TxnPutValue(v, key, blind, txn) ==
    /\ nops < MaxOps
    /\ \E r \in {put(engine, Record(v, None, FALSE, <<>>), key, blind)} :
          /\ engine' = r.eng
          /\ held' = IF r.err = "none" THEN r.ret ELSE held
          /\ last' = TxnCall("put", key, v, r.ret, r.err, txn)
    /\ touched' = put_calls(engine, Record(v, None, FALSE, <<>>), key, blind, txn)
    /\ nops' = nops + 1
    /\ TxnFrame

\* held.data = v; coll.put(held, txn)
TxnPutHeld(v, txn) ==
    /\ nops < MaxOps
    /\ held.some
    /\ \E r \in {put(engine, [held EXCEPT !.data = v], None, FALSE)} :
          /\ engine' = r.eng
          /\ held' = r.rec
          /\ last' = TxnCall("put", held.key, v, r.ret, r.err, txn)
    /\ touched' = put_calls(engine, [held EXCEPT !.data = v], None, FALSE, txn)
    /\ nops' = nops + 1
    /\ TxnFrame

\* held = coll.get(key, rec=True, txn=txn)
TxnGetRec(key, txn) ==
    /\ nops < MaxOps
    /\ held' = get(engine, key)
    /\ last' = TxnCall("get", key, 0, get(engine, key), "none", txn)
    /\ touched' = get_calls(key, txn)
    /\ nops' = nops + 1
    /\ UNCHANGED engine
    /\ TxnFrame

\* coll.delete(key, txn)
TxnDeleteKey(key, txn) ==
    /\ nops < MaxOps
    /\ \E r \in {delete(engine, key)} :
          /\ engine' = r.eng
          /\ last' = TxnCall("delete", key, 0, r.ret, r.err, txn)
    /\ touched' = delete_calls(engine, key, txn)
    /\ nops' = nops + 1
    /\ UNCHANGED held
    /\ TxnFrame

\* coll.delete(held, txn)
TxnDeleteHeld(txn) ==
    /\ nops < MaxOps
    /\ held.some
    /\ \E r \in {delete_rec(engine, held)} :
          /\ engine' = r.eng
          /\ held' = r.rec
          /\ last' = TxnCall("delete", held.key, 0, r.ret, r.err, txn)
    /\ touched' = delete_rec_calls(held, txn)
    /\ nops' = nops + 1
    /\ TxnFrame

\* coll.batch(max_recs=2): its engine calls are not recorded
TxnBatch ==
    /\ nops < MaxOps
    /\ \E r \in {batch(engine, BatchArgs(None, None, 2, NoInt, TRUE, NoInt, FALSE))} :
          /\ engine' = r.eng
          /\ last' = TxnCall("batch", None, 0, NoRec, r.err, FALSE)
    /\ touched' = <<>>
    /\ nops' = nops + 1
    /\ UNCHANGED held
    /\ TxnFrame

\* the step an engine call belongs to: 1 the old physical record is deleted,
\* 2 an old index entry is deleted, 3 the new physical record is written,
\* 4 a new index entry is written; 0 for a read
Phase(c) ==
    IF c.op = "delete" THEN (IF HasPrefix(idxPrefix, c.key) THEN 2 ELSE 1)
    ELSE IF c.op = "put" THEN (IF HasPrefix(idxPrefix, c.key) THEN 4 ELSE 3)
    ELSE 0

\* the calls that change the engine
Changes(calls) == SelectSeq(calls, LAMBDA c : c.op # "iter")

\* C21: within one put or delete the engine is changed in the order (1) old
\* physical record deleted, (2) old index entries deleted, (3) new physical
\* record written, (4) new index entries written, so that nothing new is
\* written before everything old is removed; and the calls made are the whole
\* effect of the operation on the engine
C21_CallOrder ==
    [][last'.op \in {"put", "delete"} =>
          /\ \A i, j \in 1..Len(Changes(touched')) :
                i < j => Phase(Changes(touched')[i]) <= Phase(Changes(touched')[j])
          /\ Replay(engine, touched') = engine']_vars

\* C21 witness: a put that deleted an old physical record and old index
\* entries and then wrote the new record and new index entries
C21_Witness ==
    /\ last.op = "put"
    /\ \A p \in 1..4 : \E i \in 1..Len(touched) : Phase(touched[i]) = p

(***************************************************************************)
(* Index: the scans over the index entries [index tuple | record key] of    *)
(* the collection's index.                                                  *)
(***************************************************************************)
\* itertools.takewhile(pred, it) over the engine's (key, value) pairs
RECURSIVE TakeWhileRaw(_, _, _)
TakeWhileRaw(p, bound, it) ==
    IF it # <<>> /\ ApplyPred(p, bound, it[1][1])
    THEN <<it[1]>> \o TakeWhileRaw(p, bound, Tail(it)) ELSE <<>>

\* Index._iter, lines 223-227: each key decoded, up to the first one that is
\* not under the index prefix
RECURSIVE DecodeEntries(_)
DecodeEntries(it) ==
    IF it = <<>> \/ Unpacks(idxPrefix, it[1][1]) = <<>> THEN <<>>
    ELSE <<Unpacks(idxPrefix, it[1][1])>> \o DecodeEntries(Tail(it))

\* Index._iter, lines 191-210: the raw bounds and the include flag
Index_bounds(key, lo, hi, rev, include) ==
    [lo |-> IF key # None /\ ~rev THEN Packs(idxPrefix, <<key>>)
            ELSE IF lo = None THEN idxPrefix ELSE Packs(idxPrefix, <<lo>>),
     hi |-> IF key # None /\ rev THEN next_greater(Packs(idxPrefix, <<key>>))
            ELSE IF hi = None THEN next_greater(idxPrefix)
            ELSE next_greater(Packs(idxPrefix, <<hi>>)),
     include |-> IF key # None /\ rev THEN FALSE
                 ELSE IF hi = None THEN FALSE ELSE include]

\* Index._iter, lines 212-227, with the bounds b
Index_scan(eng, b, rev, max_) ==
    LET it0 == EngineIter(eng, IF rev THEN b.hi ELSE b.lo, rev)
        it1 == IF rev THEN TakeWhileRaw("le", b.lo, it0)
               ELSE IF b.include THEN TakeWhileRaw("ge", b.hi, it0)
               ELSE TakeWhileRaw("gt", b.hi, it0)
    IN  DecodeEntries(IF max_ # NoInt THEN Take(it1, max_) ELSE it1)

\* Index._iter(txn, key, lo, hi, reverse, max, include): the decoded entries
\* <<index tuple, record key>>
Index_iter(eng, key, lo, hi, rev, max_, include) ==
    Index_scan(eng, Index_bounds(key, lo, hi, rev, include), rev, max_)

\* Index.pairs(args, lo, hi, reverse, max, include)
Index_pairs(eng, args, lo, hi, rev, max_, include) ==
    Index_iter(eng, args, lo, hi, rev, max_, include)

\* Index.count(args, lo, hi, max, include)
Index_count(eng, args, lo, hi, max_, include) ==
    Len(Index_iter(eng, args, lo, hi, FALSE, max_, include))

\* Index.keys(args, ...): ITEMGETTER_1 of the pairs
Index_keys(eng, args, lo, hi, rev, max_, include) ==
    [i \in 1..Len(Index_pairs(eng, args, lo, hi, rev, max_, include)) |->
        Index_pairs(eng, args, lo, hi, rev, max_, include)[i][2]]

\* Index.items(args, reverse=..., rec=True), lines 263-270: each entry of the
\* scan with the Record coll.get() finds for its key
Index_resolve(eng, pairs) ==
    [i \in 1..Len(pairs) |-> [key |-> pairs[i][2], rec |-> get(eng, pairs[i][2])]]

\* Index.items: the (key, value) pairs yielded, and the number of warnings
Index_items(eng, args, lo, hi, rev, max_, include) ==
    [recs |-> LET got == SelectSeq(Index_resolve(eng, Index_pairs(eng, args, lo, hi, rev, max_, include)),
                                   LAMBDA e : e.rec.some)
              IN  [i \in 1..Len(got) |-> <<got[i].key, got[i].rec.data>>],
     warned |-> Len(SelectSeq(Index_resolve(eng, Index_pairs(eng, args, lo, hi, rev, max_, include)),
                              LAMBDA e : ~e.rec.some))]

(***************************************************************************)
(* SpecIndex: the indexed collection with scans of its index.  Blind puts   *)
(* over an existing key leave stale index entries behind.                   *)
(***************************************************************************)
\* the index tuples given as args: the values of the index function
IndexArgs == {<<5>>, <<6>>}

IndexOut(dir, args, rev, recs, warned) ==
    [dir |-> dir, args |-> args, rev |-> rev, recs |-> recs, warned |-> warned]

\* out = list(index.pairs(args, reverse=rev))
IndexPairs(args, rev) ==
    /\ out' = IndexOut("pairs", args, rev,
                       Index_pairs(engine, args, None, None, rev, NoInt, FALSE), 0)
    /\ last' = Call("pairs", None, 0, NoRec, "none")
    /\ UNCHANGED <<engine, held, nops>>
    /\ UNCHANGED <<seek, derived, itr, rt, keyed, store, touched, callers, commits>>

\* out = list(index.items(args, reverse=rev))
IndexItems(args, rev) ==
    /\ \E r \in {Index_items(engine, args, None, None, rev, NoInt, FALSE)} :
          out' = IndexOut("items", args, rev, r.recs, r.warned)
    /\ last' = Call("items", None, 0, NoRec, "none")
    /\ UNCHANGED <<engine, held, nops>>
    /\ UNCHANGED <<seek, derived, itr, rt, keyed, store, touched, callers, commits>>

\* a scan leaves the engine as it is, so each behaviour makes its changes
\* first and then scans
NextIndex ==
    \/ \E v \in Vals, key \in Keys \cup {None}, blind \in BOOLEAN :
          out.dir = "none" /\ PutValue(v, key, blind, FALSE)
    \/ \E key \in Keys : out.dir = "none" /\ DeleteKey(key)
    \/ out.dir = "none" /\ Batch(BatchArgs(None, None, 2, NoInt, TRUE, NoInt, FALSE))
    \/ \E args \in IndexArgs \cup {None}, rev \in BOOLEAN : IndexPairs(args, rev)
    \/ \E args \in IndexArgs \cup {None}, rev \in BOOLEAN : IndexItems(args, rev)

\* only plain values are put, whose key never depends on derived_keys
InitIndex == Init /\ ~derived

SpecIndex == InitIndex /\ [][NextIndex]_vars

\* the decoded entries of the index, in ascending order
AllEntries(eng) ==
    [i \in 1..Len(SortSeqs({k \in DOMAIN eng : HasPrefix(idxPrefix, k)})) |->
        Unpacks(idxPrefix, SortSeqs({k \in DOMAIN eng : HasPrefix(idxPrefix, k)})[i])]

\* the entries whose index tuple has args as a prefix, in ascending order
Matching(eng, args) == SelectSeq(AllEntries(eng), LAMBDA e : HasPrefix(args, e[1]))

\* C26: an index scan given the prefix tuple args returns exactly the index
\* entries whose tuple has args as a prefix, ascending in a forward scan and
\* descending in a reverse scan; count() counts them and keys() gives their
\* record keys
C26_IndexPrefixScan ==
    [][(last'.op = "pairs" /\ out'.args # None) =>
          /\ out'.recs = (IF out'.rev THEN Rev(Matching(engine, out'.args))
                          ELSE Matching(engine, out'.args))
          /\ Index_count(engine, out'.args, None, None, NoInt, FALSE)
                = Len(Matching(engine, out'.args))
          /\ Len(Index_keys(engine, out'.args, None, None, out'.rev, NoInt, FALSE))
                = Len(Matching(engine, out'.args))]_vars

\* the entries of a scan whose record key is stored, alone or inside a batch
Resolved(eng, pairs) == SelectSeq(pairs, LAMBDA e : Live(eng, e[2]))

\* C28: Index.items yields one (primary key, value) pair for every scanned
\* index entry whose key is that of a stored record, with the value stored
\* under that key, in scan order; every entry whose record is missing gives a
\* warning and nothing else, and the scan goes on
C28_StaleEntriesSkipped ==
    [][last'.op = "items" =>
          \E pairs \in {Index_pairs(engine, out'.args, None, None, out'.rev, NoInt, FALSE)} :
              /\ Len(out'.recs) = Len(Resolved(engine, pairs))
              /\ \A i \in 1..Len(out'.recs) :
                    /\ i <= Len(Resolved(engine, pairs))
                    /\ out'.recs[i][1] = Resolved(engine, pairs)[i][2]
                    /\ \E r \in Stored(engine) :
                          r.key = out'.recs[i][1] /\ r.val = out'.recs[i][2]
              /\ out'.warned = Len(pairs) - Len(Resolved(engine, pairs))]_vars

\* Index.has(x, txn): the first entry at or after x has the tuple x
Index_has(eng, x) ==
    LET found == Index_pairs(eng, x, None, None, FALSE, NoInt, FALSE)
    IN  found # <<>> /\ found[1][1] = x

\* Index.has(x, txn), line 292: self.pairs(x) is given no txn
Index_has_calls(x, txn) == <<EngineCall("iter", Packs(idxPrefix, <<x>>), <<>>, FALSE)>>

\* the entries Index.get() resolves: up to the first one whose record exists
RECURSIVE UpToFirstHit(_)
UpToFirstHit(res) ==
    IF res = <<>> THEN <<>>
    ELSE IF res[1].rec.some THEN <<res[1]>>
    ELSE <<res[1]>> \o UpToFirstHit(Tail(res))

\* Index.get(x, txn, rec=True), lines 299-303: the first Record referred to
\* by an entry of tuple x, or None
Index_get(eng, x) ==
    LET res == UpToFirstHit(Index_resolve(eng, Index_pairs(eng, None, x, x, FALSE, NoInt, FALSE)))
    IN  IF res # <<>> /\ res[Len(res)].rec.some THEN res[Len(res)].rec ELSE NoRec

\* Index.get(x, txn), line 299: self.items(lo=x, hi=x, ...) is given no txn,
\* neither for the scan of the index nor for the coll.get() of each entry
Index_get_calls(eng, x, txn) ==
    <<EngineCall("iter", Packs(idxPrefix, <<x>>), <<>>, FALSE)>>
    \o Concat([i \in 1..Len(UpToFirstHit(Index_resolve(eng,
                      Index_pairs(eng, None, x, x, FALSE, NoInt, FALSE)))) |->
                 get_calls(UpToFirstHit(Index_resolve(eng,
                      Index_pairs(eng, None, x, x, FALSE, NoInt, FALSE)))[i].key, FALSE)])

\* Store.count(name, n, init, txn), lines 1085-1089: get() and put() of the
\* counters collection are both given txn
count_calls(eng, name, n, init, txn) ==
    [i \in 1..Len(count(eng, name, n, init).ops) |->
        EngineCall(count(eng, name, n, init).ops[i][1], count(eng, name, n, init).ops[i][2],
                   IF count(eng, name, n, init).ops[i][1] = "put"
                   THEN count(eng, name, n, init).eng[count(eng, name, n, init).ops[i][2]]
                   ELSE <<>>,
                   txn)]

\* index.has(x, txn)
TxnIndexHas(x, txn) ==
    /\ nops < MaxOps
    /\ last' = TxnCall("has", x, IF Index_has(engine, x) THEN 1 ELSE 0, NoRec, "none", txn)
    /\ touched' = Index_has_calls(x, txn)
    /\ nops' = nops + 1
    /\ UNCHANGED <<engine, held>>
    /\ TxnFrame

\* index.get(x, txn, rec=True)
TxnIndexGet(x, txn) ==
    /\ nops < MaxOps
    /\ last' = TxnCall("index_get", x, 0, Index_get(engine, x), "none", txn)
    /\ touched' = Index_get_calls(engine, x, txn)
    /\ nops' = nops + 1
    /\ UNCHANGED <<engine, held>>
    /\ TxnFrame

\* store.count(name, n=1, txn=txn)
TxnCount(name, txn) ==
    /\ nops < MaxOps
    /\ \E r \in {count(engine, name, 1, 1)} :
          /\ engine' = r.eng
          /\ last' = TxnCall("count", None, r.ret, NoRec, "none", txn)
    /\ touched' = count_calls(engine, name, 1, 1, txn)
    /\ nops' = nops + 1
    /\ UNCHANGED held
    /\ TxnFrame

NextTxn ==
    \/ \E v \in Vals, key \in Keys \cup {None}, blind \in BOOLEAN, txn \in BOOLEAN :
          TxnPutValue(v, key, blind, txn)
    \/ \E v \in Vals, txn \in BOOLEAN : TxnPutHeld(v, txn)
    \/ \E key \in Keys, txn \in BOOLEAN : TxnGetRec(key, txn)
    \/ \E key \in Keys, txn \in BOOLEAN : TxnDeleteKey(key, txn)
    \/ \E txn \in BOOLEAN : TxnDeleteHeld(txn)
    \/ TxnBatch
    \/ \E x \in IndexArgs, txn \in BOOLEAN : TxnIndexHas(x, txn)
    \/ \E x \in IndexArgs, txn \in BOOLEAN : TxnIndexGet(x, txn)
    \/ \E txn \in BOOLEAN : TxnCount(KeyCounter, txn)

SpecTxn == InitTxn /\ [][NextTxn]_vars

\* C22: when put, delete, get, Index.get, Index.has or Store.count is called
\* with a transaction handle, every engine read and write of the call is made
\* on the handle and none on the engine itself
C22_CallsThroughHandle ==
    [][last'.txn => \A i \in 1..Len(touched') : touched'[i].via = "txn"]_vars

(***************************************************************************)
(* Store: the encoder registry ('\x00encoders', _idx=2, counter             *)
(* '\x00encoder_idx') and the collection / index numbers ('\x00collections', *)
(* _idx=0, counter '\x00collections_idx').  Names are written as small      *)
(* integers.                                                                *)
(***************************************************************************)
KIND_NULL == 15

\* _idx of the collections '\x00collections' and '\x00encoders'
InfoIdx == 0
EncoderIdx == 2

\* the counters '\x00encoder_idx' and '\x00collections_idx'
EncoderCounter == 2
InfoCounter == 3

\* assert idx <= 240
MaxEncoderIdx == 240

\* KEY_ENCODER.pack / unpack of the tuple (name, idx, index_for), index_for
\* being None or a name (written <<name>>)
InfoPack(t) ==
    PackText(t[1]) \o <<KIND_INTEGER>> \o PackInt(t[2])
        \o (IF t[3] = None THEN <<KIND_NULL>> ELSE PackText(t[3][1]))

InfoUnpack(s) == <<s[2], s[4], IF s[5] = KIND_NULL THEN None ELSE <<s[6]>>>>

\* Collection.get(name) on one of the store's own collections (prefix
\* pack_int(idx), keyed by ITEMGETTER_0, never batched): the packed value of
\* the record of that name, or None
meta_get(eng, idx, name) ==
    LET it == EngineIter(eng, PackInt(idx) \o PackText(name), FALSE)
        rest == IF it # <<>> /\ ~HasPrefix(PackInt(idx), it[1][1]) THEN Tail(it) ELSE it
    IN  IF rest # <<>> /\ Unpacks(PackInt(idx), rest[1][1]) # <<>>
           /\ ApplyPred("ge", tuplize(name), Unpacks(PackInt(idx), rest[1][1])[1])
        THEN _decompress(rest[1][2])
        ELSE None

\* Collection.put(t) on one of the store's own collections (no index, so
\* nothing is looked up or deleted): one engine put
meta_put(eng, idx, name, packed) ==
    EnginePut(eng, PackInt(idx) \o PackText(name), PackInt(PlainPrefix) \o PackerPack(packed))

\* add_encoder() made to draw a new number each time the encoder object is
\* not in the Store's dict, without looking the name up
add_encoder_no_lookup(eng, st, e) ==
    IF e.obj \in DOMAIN st.encoder_prefix
    THEN [eng |-> eng, store |-> st, ret |-> st.encoder_prefix[e.obj], err |-> "none"]
    ELSE IF count(eng, EncoderCounter, 1, 10).ret > MaxEncoderIdx
    THEN [eng |-> count(eng, EncoderCounter, 1, 10).eng, store |-> st, ret |-> None,
          err |-> "AssertionError"]
    ELSE [eng |-> meta_put(count(eng, EncoderCounter, 1, 10).eng, EncoderIdx, e.name,
                           KeyEncoderPack(<<e.name, count(eng, EncoderCounter, 1, 10).ret>>)),
          store |-> [encoder_prefix |->
                        [o \in DOMAIN st.encoder_prefix \cup {e.obj} |->
                            IF o = e.obj THEN PackInt(count(eng, EncoderCounter, 1, 10).ret)
                            ELSE st.encoder_prefix[o]],
                     prefix_encoder |->
                        [q \in DOMAIN st.prefix_encoder
                               \cup {PackInt(count(eng, EncoderCounter, 1, 10).ret)} |->
                            IF q = PackInt(count(eng, EncoderCounter, 1, 10).ret) THEN e
                            ELSE st.prefix_encoder[q]]],
          ret |-> PackInt(count(eng, EncoderCounter, 1, 10).ret), err |-> "none"]

\* Store.add_encoder(encoder): the engine and the dicts afterwards, and the
\* prefix byte returned
add_encoder(eng, st, e) ==
    IF e.obj \in DOMAIN st.encoder_prefix
    THEN [eng |-> eng, store |-> st, ret |-> st.encoder_prefix[e.obj], err |-> "none"]
    ELSE IF meta_get(eng, EncoderIdx, e.name) # None
    THEN [eng |-> eng, store |-> st,
          ret |-> PackInt(KeyEncoderUnpack(meta_get(eng, EncoderIdx, e.name))[2]),
          err |-> "none"]
    ELSE IF count(eng, EncoderCounter, 1, 10).ret > MaxEncoderIdx
    THEN [eng |-> count(eng, EncoderCounter, 1, 10).eng, store |-> st, ret |-> None,
          err |-> "AssertionError"]
    ELSE [eng |-> meta_put(count(eng, EncoderCounter, 1, 10).eng, EncoderIdx, e.name,
                           KeyEncoderPack(<<e.name, count(eng, EncoderCounter, 1, 10).ret>>)),
          store |-> [encoder_prefix |->
                        [o \in DOMAIN st.encoder_prefix \cup {e.obj} |->
                            IF o = e.obj THEN PackInt(count(eng, EncoderCounter, 1, 10).ret)
                            ELSE st.encoder_prefix[o]],
                     prefix_encoder |->
                        [q \in DOMAIN st.prefix_encoder
                               \cup {PackInt(count(eng, EncoderCounter, 1, 10).ret)} |->
                            IF q = PackInt(count(eng, EncoderCounter, 1, 10).ret) THEN e
                            ELSE st.prefix_encoder[q]]],
          ret |-> PackInt(count(eng, EncoderCounter, 1, 10).ret), err |-> "none"]

\* Store.get_encoder(prefix): the encoder, or an exception
get_encoder(st, q) ==
    IF q \in DOMAIN st.prefix_encoder
    THEN [ret |-> st.prefix_encoder[q], err |-> "none"]
    ELSE [ret |-> [obj |-> "", name |-> 0], err |-> "Missing encoder"]

\* _get_info() made to read the counter without advancing it
_get_info_peek(eng, name, index_for) ==
    IF meta_get(eng, InfoIdx, name) # None
    THEN IF InfoUnpack(meta_get(eng, InfoIdx, name))
               = <<name, InfoUnpack(meta_get(eng, InfoIdx, name))[2], index_for>>
         THEN [eng |-> eng, info |-> InfoUnpack(meta_get(eng, InfoIdx, name)), err |-> "none"]
         ELSE [eng |-> eng, info |-> <<>>, err |-> "AssertionError"]
    ELSE [eng |-> meta_put(count(eng, InfoCounter, 0, 10).eng, InfoIdx, name,
                           InfoPack(<<name, count(eng, InfoCounter, 0, 10).ret, index_for>>)),
          info |-> <<name, count(eng, InfoCounter, 0, 10).ret, index_for>>,
          err |-> "none"]

\* Store._get_info(name, index_for=index_for): the engine afterwards and the
\* tuple (name, idx, index_for)
_get_info(eng, name, index_for) ==
    IF meta_get(eng, InfoIdx, name) # None
    THEN IF InfoUnpack(meta_get(eng, InfoIdx, name))
               = <<name, InfoUnpack(meta_get(eng, InfoIdx, name))[2], index_for>>
         THEN [eng |-> eng, info |-> InfoUnpack(meta_get(eng, InfoIdx, name)), err |-> "none"]
         ELSE [eng |-> eng, info |-> <<>>, err |-> "AssertionError"]
    ELSE [eng |-> meta_put(count(eng, InfoCounter, 1, 10).eng, InfoIdx, name,
                           InfoPack(<<name, count(eng, InfoCounter, 1, 10).ret, index_for>>)),
          info |-> <<name, count(eng, InfoCounter, 1, 10).ret, index_for>>,
          err |-> "none"]

(***************************************************************************)
(* SpecStore: encoders are registered and looked up, collections and        *)
(* indices are created, and a new Store is opened on the same engine.       *)
(***************************************************************************)
\* the encoders handed to add_encoder: a built-in one, two Encoder objects of
\* the same name 'z' (5), one of name 'y' (6), and a user's Encoder object
\* that bears the name of the built-in 'plain'
Encoders ==
    {_ENCODERS[3], [obj |-> "z1", name |-> 5], [obj |-> "z2", name |-> 5],
     [obj |-> "y", name |-> 6], [obj |-> "myplain", name |-> 3]}

\* the prefix bytes handed to get_encoder
Prefixes == {PackInt(3), PackInt(10), PackInt(11), PackInt(MaxEncoderIdx)}

\* the collection names ('index:1:1' is written 11) and the index names
CollNames == {1, 2, 11}
IndexNames == {1}

\* info_name = 'index:%s:%s' % (self.info['name'], name)
IndexInfoName(coll, name) == 10 * coll + name

\* an engine that holds nothing
NoEntries == [k \in {} |-> <<>>]

StoreCall(op, arg, ret, err) == [op |-> op, arg |-> arg, ret |-> ret, err |-> err]

\* a new store, or one whose counter '\x00encoder_idx' was advanced to 240 with
\* store.count('\x00encoder_idx', n=230, init=10)
InitStore ==
    /\ engine \in {NoEntries, count(NoEntries, EncoderCounter, MaxEncoderIdx - 10, 10).eng}
    /\ store = NewStore
    /\ seek = "floor"
    /\ derived = FALSE
    /\ held = NoRec
    /\ last = StoreCall("init", None, None, "none")
    /\ nops = 0
    /\ itr = NoItr
    /\ out = NoOut
    /\ rt = <<>>
    /\ keyed = TRUE
    /\ touched = <<>>
    /\ callers = <<>>
    /\ commits = <<>>

StoreFrame ==
    UNCHANGED <<seek, derived, held, itr, out, rt, keyed, touched, callers, commits>>

\* store.add_encoder(e)
AddEncoder(e) ==
    /\ nops < MaxOps
    /\ \E r \in {add_encoder(engine, store, e)} :
          /\ engine' = r.eng
          /\ store' = r.store
          /\ last' = StoreCall("add_encoder", e, r.ret, r.err)
    /\ nops' = nops + 1
    /\ StoreFrame

\* store.get_encoder(q)
GetEncoder(q) ==
    /\ nops < MaxOps
    /\ last' = StoreCall("get_encoder", q, get_encoder(store, q).ret, get_encoder(store, q).err)
    /\ nops' = nops + 1
    /\ UNCHANGED <<engine, store>>
    /\ StoreFrame

\* store = Store(engine): a new Store object on the same engine
Reopen ==
    /\ nops < MaxOps
    /\ store' = NewStore
    /\ last' = StoreCall("Store", None, None, "none")
    /\ nops' = nops + 1
    /\ UNCHANGED engine
    /\ StoreFrame

\* store.collection(name): Collection.__init__ calls store._get_info(name)
NewCollection(name) ==
    /\ nops < MaxOps
    /\ \E r \in {_get_info(engine, name, None)} :
          /\ engine' = r.eng
          /\ last' = StoreCall("collection", name, r.info, r.err)
    /\ nops' = nops + 1
    /\ UNCHANGED store
    /\ StoreFrame

\* store.collection(coll).add_index(name, func)
AddIndex(coll, name) ==
    /\ nops < MaxOps
    /\ _get_info(engine, coll, None).err = "none"
    /\ \E r \in {_get_info(_get_info(engine, coll, None).eng, IndexInfoName(coll, name),
                              <<coll>>)} :
          /\ engine' = r.eng
          /\ last' = StoreCall("add_index", IndexInfoName(coll, name), r.info, r.err)
    /\ nops' = nops + 1
    /\ UNCHANGED store
    /\ StoreFrame

NextStore ==
    \/ \E e \in Encoders : AddEncoder(e)
    \/ \E q \in Prefixes : GetEncoder(q)
    \/ Reopen
    \/ \E name \in CollNames : NewCollection(name)
    \/ \E coll \in CollNames \ {11}, name \in IndexNames : AddIndex(coll, name)

SpecStore == InitStore /\ [][NextStore]_vars

\* the (name, prefix byte) pairs recorded in the '\x00encoders' collection
Recorded(eng) ==
    {<<KeyEncoderUnpack(_decompress(eng[k]))[1], PackInt(KeyEncoderUnpack(_decompress(eng[k]))[2])>> :
        k \in {x \in DOMAIN eng : HasPrefix(PackInt(EncoderIdx), x)}}

\* the (name, prefix byte) pairs the Store object holds in its dicts
Known(st) == {<<st.prefix_encoder[q].name, q>> : q \in DOMAIN st.prefix_encoder}

\* the (name, idx, index_for) tuples recorded in the '\x00collections' collection
Infos(eng) ==
    {InfoUnpack(_decompress(eng[k])) : k \in {x \in DOMAIN eng : HasPrefix(PackInt(InfoIdx), x)}}

C24_ReopenResolves ==
    [][/\ (last'.op = "add_encoder" /\ last'.err = "none"
             /\ last'.arg.obj \notin DOMAIN NewStore.encoder_prefix) =>
             \A pr \in Recorded(engine) : pr[1] = last'.arg.name => last'.ret = pr[2]
       /\ (last.op = "add_encoder" /\ last.err = "none"
             /\ last'.op = "get_encoder" /\ last'.arg = last.ret) =>
             (last'.err = "none" /\ last'.ret.name = last.arg.name)]_vars

\* C25: every collection and index name recorded has a number that is at
\* least 10, never changes and is shared with no other name; creating the
\* collection or index again returns the recorded number and records nothing
C25_InfoNumbers ==
    [][/\ \A t \in Infos(engine') : t[2] >= 10
       /\ \A t, u \in Infos(engine') : (t[1] = u[1]) <=> (t[2] = u[2])
       /\ Infos(engine) \subseteq Infos(engine')
       /\ (last'.op \in {"collection", "add_index"} /\ last'.err = "none") =>
             /\ last'.ret \in Infos(engine')
             /\ last'.ret[1] = last'.arg
             /\ (\E t \in Infos(engine) : t[1] = last'.arg) => Infos(engine') = Infos(engine)]_vars

\* C25 witness: a collection recorded earlier was created again on a store
\* that holds three numbered names, an index among them
C25_Witness ==
    /\ last.op = "collection" /\ last.err = "none"
    /\ Cardinality(Infos(engine)) = 3
    /\ \E t \in Infos(engine) : t[3] # None
    /\ nops = 4

(***************************************************************************)
(* C27: the result cap of set_max.                                          *)
(***************************************************************************)
\* the iterator with its result cap removed
Uncapped(it) == [it EXCEPT !.remain = NoInt]

\* C27: after set_max(m), m >= 0, forward() and reverse() each yield exactly
\* min(m, number of in-range entries) results, the first m in scan direction,
\* and none when m is 0; without set_max every in-range entry is yielded.
C27_MaxResults ==
    /\ (out.dir = "forward" /\ itr.remain # NoInt) =>
           out.recs = Take(InBounds(engine, itr), itr.remain)
    /\ (out.dir = "reverse" /\ itr.remain # NoInt) =>
           out.recs = Take(Rev(InBounds(engine, itr)), itr.remain)
    /\ (out.dir # "none" /\ itr.remain = NoInt) =>
           Len(out.recs) = Len(InBounds(engine, itr))

\* the cap taken against what the same iterator yields without it: the first
\* m results of the uncapped scan, none for m = 0
C27_CapOfUncapped ==
    /\ (out.dir = "forward" /\ itr.remain # NoInt) =>
           out.recs = Take(forward(engine, Uncapped(itr)), itr.remain)
    /\ (out.dir = "reverse" /\ itr.remain # NoInt) =>
           out.recs = Take(reverse(engine, Uncapped(itr)), itr.remain)

(***************************************************************************)
(* acid.iterators: BatchRangeIterator, which visits the members of a batch  *)
(* one by one.                                                              *)
(***************************************************************************)
\* the compressor handed to BatchRangeIterator: one that reads what the
\* collection wrote
CompressorUnpack(s) == _decompress(s)

\* what _step() leaves in the iterator for each member of the physical entry
\* ent, in the order the members are visited
BatchMembers(ent, rev) ==
    LET keys == Unpacks(prefix, ent[1])
        lenk == Len(keys)
    IN  IF lenk = 1
        THEN <<[phys_key |-> ent[1], key |-> keys[1], data |-> ent[2]]>>
        ELSE LET d == decode_offsets(ent[2])
                 concat == CompressorUnpack(Drop(ent[2], d.pos))
             IN  [j \in 1..lenk |->
                    LET idx == IF rev THEN lenk - j ELSE j - 1
                    IN  [phys_key |-> ent[1],
                         key |-> keys[lenk - idx],
                         data |-> SubSeq(concat, d.offsets[idx + 1] + 1, d.offsets[idx + 2])]]

\* BatchRangeIterator._step, called until it returns False: the members
\* visited from position pos of the engine iterator on, with max_phys physical
\* records left to fetch (NoInt: no limit)
RECURSIVE BatchSteps(_, _, _, _)
BatchSteps(ents, pos, max_phys, rev) ==
    IF max_phys = 0 THEN <<>>
    ELSE IF pos > Len(ents) \/ Unpacks(prefix, ents[pos][1]) = <<>> THEN <<>>
    ELSE BatchMembers(ents[pos], rev)
         \o BatchSteps(ents, pos + 1, IF max_phys = NoInt THEN NoInt ELSE max_phys - 1, rev)

\* while go and not pred(self.key): go = self._step()
RECURSIVE SkipWhileNot(_, _, _)
SkipWhileNot(p, bound, s) ==
    IF s # <<>> /\ ~ApplyPred(p, bound, s[1].key) THEN SkipWhileNot(p, bound, Tail(s)) ELSE s

\* while go and remain and pred(self.key): yield self; remain -= 1; go = self._step()
RECURSIVE BatchYield(_, _, _, _)
BatchYield(s, remain, p, bound) ==
    IF s # <<>> /\ remain # 0 /\ ApplyPred(p, bound, s[1].key)
    THEN <<s[1]>> \o BatchYield(Tail(s), remain - 1, p, bound)
    ELSE <<>>

\* BatchRangeIterator.forward
BatchRangeIterator_forward(eng, it, max_phys) ==
    LET ents == EngineIter(eng, IF it.lo = None THEN prefix ELSE to_raw(prefix, it.lo), FALSE)
    IN  BatchYield(SkipWhileNot(it.lo_pred, it.lo, BatchSteps(ents, 1, max_phys, FALSE)),
                   it.remain, it.hi_pred, it.hi)

\* reverse() that does not step a second time when the first step left the
\* prefix
BatchRangeIterator_reverse_one_step(eng, it, max_phys) ==
    LET ents == EngineIter(eng,
                           IF it.hi = None THEN next_greater(prefix) ELSE to_raw(prefix, it.hi),
                           TRUE)
    IN  BatchYield(SkipWhileNot(it.hi_pred, it.hi, BatchSteps(ents, 1, max_phys, TRUE)),
                   it.remain, it.lo_pred, it.lo)

\* BatchRangeIterator.reverse: a first step that fetched an entry outside the
\* prefix has used one of the max_phys and is followed by a second one
BatchRangeIterator_reverse(eng, it, max_phys) ==
    LET ents == EngineIter(eng,
                           IF it.hi = None THEN next_greater(prefix) ELSE to_raw(prefix, it.hi),
                           TRUE)
        first == BatchSteps(ents, 1, max_phys, TRUE)
        steps == IF first # <<>> \/ max_phys = 0 THEN first
                 ELSE BatchSteps(ents, 2, IF max_phys = NoInt THEN NoInt ELSE max_phys - 1, TRUE)
    IN  BatchYield(SkipWhileNot(it.hi_pred, it.hi, steps), it.remain, it.lo_pred, it.lo)

\* from_args on a BatchRangeIterator: max_phys is set when it is not None or 0
batch_from_args(eng, it, key, lo, hi, pfx, rev, max_, include, max_phys) ==
    LET set == from_args_set(it, key, lo, hi, pfx, max_, include)
        mp == IF key = None /\ Truthy(max_phys) THEN max_phys ELSE NoInt
    IN  IF key = None /\ rev
        THEN [itr |-> set, dir |-> "batch_reverse", max_phys |-> mp,
              recs |-> BatchRangeIterator_reverse(eng, set, mp)]
        ELSE [itr |-> set, dir |-> "batch_forward", max_phys |-> mp,
              recs |-> BatchRangeIterator_forward(eng, set, mp)]

(***************************************************************************)
(* SpecScan: one scan of a collection that lies between the entries of      *)
(* other prefixes, by Collection.items, a RangeIterator or a                *)
(* BatchRangeIterator.                                                      *)
(***************************************************************************)
\* the batch holding the keys <<1>> and <<MaxKey>>
ScanBatch ==
    _prepare_batch(<<[key |-> <<1>>, data |-> EncoderPack(1)],
                     [key |-> <<MaxKey>>, data |-> EncoderPack(2)]>>)

\* the entries the engine may hold: lone records, the batch, an index entry
ScanEntries ==
    [k \in {Packs(prefix, <<key>>) : key \in Keys} |-> <<PlainPrefix>> \o EncoderPack(1)]
    @@ [k \in {ScanBatch.phys} |-> ScanBatch.data]
    @@ [k \in {Packs(idxPrefix, <<<<5>>, <<1>>>>)} |-> <<>>]

InitScan ==
    /\ \E S \in SUBSET DOMAIN ScanEntries :
          engine = [k \in S \cup {MetaKey} |-> IF k = MetaKey THEN <<1>> ELSE ScanEntries[k]]
    /\ seek \in {"floor", "ceil"}
    /\ derived = TRUE
    /\ held = NoRec
    /\ last = Call("init", None, 0, NoRec, "none")
    /\ nops = 0
    /\ itr = NoItr
    /\ out = NoOut
    /\ rt = <<>>
    /\ KeyedIdle

ScanFrame ==
    UNCHANGED <<engine, seek, derived, held, last, nops, rt,
                keyed, store, touched, callers, commits>>

\* list(from_args(BatchRangeIterator(engine, prefix, compressor), ...))
BatchFromArgs(a, max_phys) ==
    /\ out = NoOut
    /\ itr = NoItr
    /\ LET r == batch_from_args(engine, itr, a.key, a.lo, a.hi, a.pfx, a.rev, a.max_,
                                a.include, max_phys)
       IN  /\ itr' = r.itr
           /\ out' = [dir |-> r.dir, recs |-> r.recs, max_phys |-> r.max_phys]
    /\ ScanFrame

\* list(coll.items(key, lo, hi, reverse=reverse, max=max_, include=include))
Items(a) ==
    /\ out = NoOut
    /\ itr = NoItr
    /\ out' = [dir |-> "items",
               recs |-> items(engine, a.key, a.lo, a.hi, a.rev, a.max_, a.include),
               args |-> a]
    /\ itr' = itr
    /\ ScanFrame

\* the argument lists items() is called with
ItemsInputs ==
    [key : Keys, lo : {None}, hi : {None}, pfx : {None}, rev : BOOLEAN,
     max_ : {NoInt} \cup (0..MaxKey), include : {FALSE}]
    \cup [key : {None}, lo : Keys \cup {None}, hi : Keys \cup {None}, pfx : {None},
          rev : BOOLEAN, max_ : {NoInt} \cup (0..MaxKey), include : BOOLEAN]

NextScan ==
    \/ \E a \in FromArgsInputs : FromArgs(a)
    \/ \E a \in FromArgsInputs, max_phys \in {NoInt} \cup (0..MaxKey) : BatchFromArgs(a, max_phys)
    \/ \E a \in ItemsInputs : Items(a)

SpecScan == InitScan /\ [][NextScan]_vars

\* a scan with no bound and no cap
Unbounded(it) == it = NoItr

\* C29: a scan of the collection, forward or reverse, with or without bounds,
\* by Collection.items, a RangeIterator or a BatchRangeIterator, yields only
\* what is stored under the collection's prefix, and a cursor that steps onto
\* a key of another prefix ends the scan there: a scan with no bounds and no
\* cap yields every record of the collection and nothing else.
C29_ScanStaysInPrefix ==
    /\ out.dir \in {"forward", "reverse"} =>
          /\ \A i \in 1..Len(out.recs) :
                HasPrefix(prefix, out.recs[i][1]) /\ out.recs[i][2] = engine[out.recs[i][1]]
          /\ Unbounded(itr) => Len(out.recs) = Cardinality(PhysKeys(engine))
    /\ out.dir \in {"batch_forward", "batch_reverse"} =>
          /\ \A i \in 1..Len(out.recs) :
                /\ HasPrefix(prefix, out.recs[i].phys_key)
                /\ out.recs[i].phys_key \in DOMAIN engine
                /\ \E r \in Stored(engine) :
                      r.phys = out.recs[i].phys_key /\ r.key = out.recs[i].key
          /\ (Unbounded(itr) /\ out.max_phys = NoInt) =>
                Len(out.recs) = Cardinality(Stored(engine))
    /\ out.dir = "items" =>
          /\ \A i \in 1..Len(out.recs) :
                \E r \in Stored(engine) : r.key = out.recs[i][1] /\ r.val = out.recs[i][2]
          /\ (out.args.key = None /\ out.args.lo = None /\ out.args.hi = None
              /\ out.args.max_ = NoInt) =>
                Len(out.recs) = Cardinality(Stored(engine))

\* C29 witness: a reverse scan whose engine iterator starts on an entry of the
\* index, above the collection, has yielded records of the collection.
C29_Witness ==
    /\ seek = "ceil"
    /\ \E k \in DOMAIN engine : HasPrefix(idxPrefix, k)
    /\ out.dir \in {"reverse", "batch_reverse"}
    /\ itr.hi = None
    /\ out.recs # <<>>

(***************************************************************************)
(* C30: what Collection.batch returns.                                      *)
(***************************************************************************)
\* the triples (found, made, last_key) batch() is documented to return
BatchTriples == [found : 0..(2 * MaxOps), made : 0..(2 * MaxOps), last_key : Keys \cup {None}]

\* the logical records batch(max_phys = n) may take from the collection: the
\* members of its first n physical entries
FirstPhys(eng, n) ==
    LET ks == SortSeqs(PhysKeys(eng))
    IN  UNION {{r \in Stored(eng) : r.phys = ks[i]} : i \in 1..(IF n < Len(ks) THEN n ELSE Len(ks))}

\* C30: a successful batch() returns the triple (found, made, last_key): made
\* is the number of batches written, found the number of records combined (0
\* exactly when the call changed nothing), last_key the last key visited, None
\* when nothing was visited.
C30_BatchReturnsTriple ==
    [][(last'.op = "batch" /\ last'.err = "none") =>
          \E t \in BatchTriples :
              /\ last'.ret = t
              /\ t.made = Cardinality(PhysKeys(engine') \ PhysKeys(engine))
              /\ t.found = 0 <=> engine' = engine
              /\ t.last_key = None <=> PhysKeys(engine) = {}]_vars

\* batch(max_recs = 2, preserve = False, max_phys = n) leaves every record
\* outside the first n physical entries of the collection where it is
MaxPhysStops ==
    \A n \in 0..2 :
        \A x \in Stored(engine) \ FirstPhys(engine, n) :
            LET r == batch(engine, BatchArgs(None, None, 2, NoInt, FALSE, n, FALSE))
            IN  x.phys \in DOMAIN r.eng /\ r.eng[x.phys] = engine[x.phys]

(***************************************************************************)
(* SpecPack: Collection.batch called, once or twice, on a collection of     *)
(* lone records written by put under 1-tuple keys.  The second call meets   *)
(* the batches the first one wrote.                                         *)
(***************************************************************************)
MaxPackKey == 5     \* the records of SpecPack have the keys <<1>> .. <<MaxPackKey>>
MaxPackOps == 2     \* batch() calls made in one behaviour of SpecPack

\* the argument lists batch() is called with in SpecPack
PackCalls ==
    {BatchArgs(None, None, m, NoInt, pr, NoInt, g) : m \in 1..3, pr \in BOOLEAN, g \in BOOLEAN}
    \cup {BatchArgs(None, None, NoInt, 7, pr, NoInt, FALSE) : pr \in BOOLEAN}
    \cup {BatchArgs(<<2>>, <<4>>, 2, NoInt, pr, NoInt, FALSE) : pr \in BOOLEAN}

InitPack ==
    /\ \E f \in [1..MaxPackKey -> 0..MaxVal] :
          engine = [k \in {MetaKey} \cup {Packs(prefix, <<<<i>>>>) : i \in {j \in 1..MaxPackKey : f[j] > 0}}
                      |-> IF k = MetaKey THEN <<1>>
                          ELSE PackInt(PlainPrefix)
                               \o PackerPack(EncoderPack(f[Unpacks(prefix, k)[1][1]]))]
    /\ seek = "floor"
    /\ derived = FALSE
    /\ held = NoRec
    /\ last = Call("init", None, 0, NoRec, "none")
    /\ nops = 0
    /\ itr = NoItr
    /\ out = NoOut
    /\ rt = <<>>
    /\ KeyedIdle

\* coll.batch(...), the arguments kept for the observer
PackBatch(p) ==
    /\ nops < MaxPackOps
    /\ \E r \in {batch(engine, p)} :
          /\ engine' = r.eng
          /\ last' = Call("batch", None, 0, NoRec, r.err)
    /\ out' = [dir |-> "batch", recs |-> <<>>, args |-> p]
    /\ nops' = nops + 1
    /\ UNCHANGED <<seek, derived, held, itr, rt, keyed, store, touched, callers, commits>>

NextPack == \E p \in PackCalls : PackBatch(p)

SpecPack == InitPack /\ [][NextPack]_vars

\* the number of logical records physical entry k holds
EntrySize(k) == Len(Unpacks(prefix, k))

\* the physical entries of the collection that the step wrote: new, or changed
WrittenBy(eng, eng2) == {k \in PhysKeys(eng2) : k \notin DOMAIN eng \/ eng[k] # eng2[k]}

\* the multi-record entries of the collection
Batches(eng) == {k \in PhysKeys(eng) : EntrySize(k) > 1}

\* the (key, value) pairs stored, however they are packed
Pairs(eng) == {<<r.key, r.val>> : r \in Stored(eng)}

\* the sizes of the physical entries, in key order
EntrySizes(eng) ==
    LET ks == SortSeqs(PhysKeys(eng)) IN [i \in 1..Len(ks) |-> EntrySize(ks[i])]

\* ceil(n / m) entries, all of size m but the last
PackedSizes(n, m) ==
    [i \in 1..((n + m - 1) \div m) |-> IF i * m <= n THEN m ELSE n - (i - 1) * m]

\* the call had max_recs = m and nothing else: no max_bytes, bounds, max_phys
\* or grouper
OnlyMaxRecs(p) ==
    /\ p.max_recs # NoInt /\ p.max_bytes = NoInt /\ p.max_phys = NoInt
    /\ p.lo = None /\ p.hi = None /\ ~p.grouper

\* C31: with only max_recs = m given, every physical record batch() writes
\* holds at most m logical records, and batching N lone records gives
\* ceil(N / m) physical records, all of m records but the last, that hold the
\* same (key, value) pairs.
C31_MaxRecsSizes ==
    [][(out'.dir = "batch" /\ last'.err = "none" /\ OnlyMaxRecs(out'.args)) =>
          /\ \A k \in WrittenBy(engine, engine') : EntrySize(k) <= out'.args.max_recs
          /\ Batches(engine) = {} =>
                /\ EntrySizes(engine')
                      = PackedSizes(Cardinality(PhysKeys(engine)), out'.args.max_recs)
                /\ Pairs(engine') = Pairs(engine)]_vars

\* C31 witness: five lone records batched with max_recs = 2 into entries of
\* 2, 2 and 1 records.
C31_Witness ==
    /\ nops = 1
    /\ out.dir = "batch" /\ OnlyMaxRecs(out.args) /\ out.args.max_recs = 2
    /\ Cardinality(Stored(engine)) = MaxPackKey
    /\ EntrySizes(engine) = PackedSizes(MaxPackKey, 2)

WholeRange(p) == p.lo = None /\ p.hi = None /\ p.max_phys = NoInt

\* C33: batch() with preserve=False explodes the multi-record entries it
\* finds: after the call the old batch's physical key is gone and each of its
\* members is stored in exactly one physical record.
C33_ExplodesBatches ==
    [][(out'.dir = "batch" /\ last'.err = "none" /\ ~out'.args.preserve
        /\ WholeRange(out'.args) /\ StoredOnce(engine)) =>
          \A b \in Batches(engine) :
              /\ b \notin WrittenBy(engine, engine') => b \notin DOMAIN engine'
              /\ \A key \in Range(Unpacks(prefix, b)) :
                    Cardinality({r \in Stored(engine') : r.key = key}) = 1]_vars

\* C34: with a grouper, no physical record written by batch() holds records
\* with two different grouper values, and consecutive records with equal
\* grouper values are packed together up to max_recs.
C34_GrouperSeparates ==
    [][(out'.dir = "batch" /\ last'.err = "none" /\ out'.args.grouper) =>
          /\ \A k \in WrittenBy(engine, engine') :
                \A r, q \in {x \in Stored(engine') : x.phys = k} : Grouper(r.val) = Grouper(q.val)
          /\ (Batches(engine) = {} /\ WholeRange(out'.args)) =>
                \A r, q \in Stored(engine') :
                    (/\ SeqLt(r.key, q.key) /\ r.phys # q.phys
                     /\ Grouper(r.val) = Grouper(q.val)
                     /\ ~\E x \in Stored(engine') : SeqLt(r.key, x.key) /\ SeqLt(x.key, q.key))
                    => (\/ Cardinality({x \in Stored(engine') : x.phys = r.phys})
                              = out'.args.max_recs
                        \/ Cardinality({x \in Stored(engine') : x.phys = q.phys})
                              = out'.args.max_recs)]_vars

(***************************************************************************)
(* C35: put of a plain value over an existing record.                       *)
(***************************************************************************)
\* C35: on a collection with an index whose entries are those of the stored
\* records, a non-blind put of a plain value whose key is the key of a stored
\* record succeeds, and afterwards the index entries for that key are exactly
\* those the new value produces.
C35_PutPurgesOld ==
    [][(/\ last'.op = "put"
        /\ Live(engine, last'.key)
        /\ IndexConsistent(engine) /\ StoredOnce(engine)) =>
          /\ last'.err = "none"
          /\ IndexEntries(engine', last'.key) = Range(_index_keys(last'.key, last'.val))]_vars

\* the same over the records that are not members of a batch
PutPurgesLone ==
    [][(/\ last'.op = "put"
        /\ Live(engine, last'.key) /\ ~InBatch(engine, last'.key)
        /\ IndexConsistent(engine) /\ StoredOnce(engine)) =>
          /\ last'.err = "none"
          /\ IndexEntries(engine', last'.key) = Range(_index_keys(last'.key, last'.val))]_vars

(***************************************************************************)
(* BatchRangeIterator as an object: _index, _max_phys and the entry last    *)
(* fetched stay in the object from one iteration to the next.               *)
(***************************************************************************)
\* a new BatchRangeIterator: the class defaults, nothing fetched
NoBatchItr ==
    [lo |-> None, hi |-> None, lo_pred |-> "bool", hi_pred |-> "bool", remain |-> NoInt,
     max_phys |-> NoInt, index |-> 0, phys_key |-> <<>>, raw |-> <<>>]

\* BatchRangeIterator.set_max_phys
set_max_phys(it, max_phys) == [it EXCEPT !.max_phys = max_phys]

\* self.key and self.data for the member idx of the batch the object holds
\* (self.keys, self.offsets and self.concat are those of self.phys_key)
MemberAt(o, idx) ==
    LET keys == Unpacks(prefix, o.phys_key)
        d == decode_offsets(o.raw)
        concat == CompressorUnpack(Drop(o.raw, d.pos))
    IN  [phys_key |-> o.phys_key,
         key |-> keys[Len(keys) - idx],
         data |-> SubSeq(concat, d.offsets[idx + 1] + 1, d.offsets[idx + 2])]

\* the second half of _step: self._index -= 1 and the member it selects
StepMember(s, o, pos, fetched, rev) ==
    LET o1 == [o EXCEPT !.index = o.index - 1]
        lenk == Len(Unpacks(prefix, o.phys_key))
    IN  [o |-> o1, pos |-> pos, go |-> TRUE, fetched |-> fetched,
         cur |-> MemberAt(o1, IF rev THEN o1.index ELSE (lenk - o1.index) - 1)]

\* _step that fetches the next entry whenever it is called, also in the
\* middle of a batch
_step_always_fetch(s, ents, rev) ==
    IF s.o.max_phys = 0 THEN [s EXCEPT !.go = FALSE]
    ELSE LET o1 == [s.o EXCEPT !.max_phys = IF @ = NoInt THEN NoInt ELSE @ - 1]
             keys == IF s.pos <= Len(ents) THEN Unpacks(prefix, ents[s.pos][1]) ELSE <<>>
         IN  IF keys = <<>>
             THEN [s EXCEPT !.o = o1, !.pos = s.pos + 1, !.go = FALSE, !.fetched = s.fetched + 1]
             ELSE LET o2 == [o1 EXCEPT !.phys_key = ents[s.pos][1], !.raw = ents[s.pos][2]]
                  IN  IF Len(keys) = 1
                      THEN [o |-> [o2 EXCEPT !.index = 0], pos |-> s.pos + 1, go |-> TRUE,
                            fetched |-> s.fetched + 1,
                            cur |-> [phys_key |-> o2.phys_key, key |-> keys[1], data |-> o2.raw]]
                      ELSE StepMember(s, [o2 EXCEPT !.index = Len(keys)], s.pos + 1,
                                      s.fetched + 1, rev)

\* BatchRangeIterator._step on the object s.o, the engine iterator ents at
\* position s.pos; go is what it returns, cur the key and data it leaves,
\* fetched the number of next(self.it) calls so far
_step(s, ents, rev) ==
    IF s.o.index = 0
    THEN IF s.o.max_phys = 0 THEN [s EXCEPT !.go = FALSE]
         ELSE LET o1 == [s.o EXCEPT !.max_phys = IF @ = NoInt THEN NoInt ELSE @ - 1]
                  keys == IF s.pos <= Len(ents) THEN Unpacks(prefix, ents[s.pos][1]) ELSE <<>>
              IN  IF keys = <<>>
                  THEN [s EXCEPT !.o = o1, !.pos = s.pos + 1, !.go = FALSE,
                                 !.fetched = s.fetched + 1]
                  ELSE LET o2 == [o1 EXCEPT !.phys_key = ents[s.pos][1], !.raw = ents[s.pos][2]]
                       IN  IF Len(keys) = 1
                           THEN [o |-> [o2 EXCEPT !.index = 0], pos |-> s.pos + 1, go |-> TRUE,
                                 fetched |-> s.fetched + 1,
                                 cur |-> [phys_key |-> o2.phys_key, key |-> keys[1],
                                          data |-> o2.raw]]
                           ELSE StepMember(s, [o2 EXCEPT !.index = Len(keys)], s.pos + 1,
                                           s.fetched + 1, rev)
    ELSE StepMember(s, s.o, s.pos, s.fetched, rev)

\* the iteration as it starts: self.it is new, nothing stepped
IterStart(o) ==
    [o |-> o, pos |-> 1, go |-> TRUE, fetched |-> 0,
     cur |-> [phys_key |-> <<>>, key |-> <<>>, data |-> <<>>]]

\* while go and not pred(self.key): go = self._step()
RECURSIVE SkipLoop(_, _, _, _, _)
SkipLoop(s, ents, rev, p, bound) ==
    IF s.go /\ ~ApplyPred(p, bound, s.cur.key)
    THEN SkipLoop(_step(s, ents, rev), ents, rev, p, bound)
    ELSE s

\* while go and remain and pred(self.key): yield self; remain -= 1; go = self._step()
RECURSIVE IterLoop(_, _, _, _, _, _, _)
IterLoop(s, ents, rev, remain, p, bound, acc) ==
    IF s.go /\ remain # 0 /\ ApplyPred(p, bound, s.cur.key)
    THEN IterLoop(_step(s, ents, rev), ents, rev, remain - 1, p, bound, Append(acc, s.cur))
    ELSE [recs |-> acc, o |-> s.o, fetched |-> s.fetched]

\* list(o.forward()): what is yielded, the object afterwards, the entries fetched
iter_forward(eng, o) ==
    LET ents == EngineIter(eng, IF o.lo = None THEN prefix ELSE to_raw(prefix, o.lo), FALSE)
        s1 == _step(IterStart(o), ents, FALSE)
    IN  IterLoop(SkipLoop(s1, ents, FALSE, o.lo_pred, o.lo), ents, FALSE,
                 o.remain, o.hi_pred, o.hi, <<>>)

\* list(o.reverse())
iter_reverse(eng, o) ==
    LET ents == EngineIter(eng,
                           IF o.hi = None THEN next_greater(prefix) ELSE to_raw(prefix, o.hi),
                           TRUE)
        s1 == _step(IterStart(o), ents, TRUE)
        s2 == IF ~s1.go THEN _step(s1, ents, TRUE) ELSE s1
    IN  IterLoop(SkipLoop(s2, ents, TRUE, o.hi_pred, o.hi), ents, TRUE,
                 o.remain, o.lo_pred, o.lo, <<>>)

(***************************************************************************)
(* SpecIter: one BatchRangeIterator object over a fixed engine, configured  *)
(* and run by from_args and then run again, in either direction.            *)
(***************************************************************************)
MaxIterKey == 4     \* the records of SpecIter have the keys <<1>> .. <<MaxIterKey>>
MaxIterRuns == 2    \* iterations made with the one object

\* the batch holding the keys <<1>> .. <<MaxIterKey - 1>>
IterBatch ==
    _prepare_batch([i \in 1..(MaxIterKey - 1) |->
                       [key |-> <<i>>, data |-> EncoderPack(1 + (i % 2))]])

\* the entries the engine may hold: the batch, a lone record above it, an
\* index entry
IterEntries ==
    [k \in {IterBatch.phys} |-> IterBatch.data]
    @@ [k \in {Packs(prefix, <<<<MaxIterKey>>>>)} |-> <<PlainPrefix>> \o EncoderPack(1)]
    @@ [k \in {Packs(idxPrefix, <<<<5>>, <<1>>>>)} |-> <<>>]

InitIter ==
    /\ \E S \in SUBSET DOMAIN IterEntries :
          engine = [k \in S \cup {MetaKey} |-> IF k = MetaKey THEN <<1>> ELSE IterEntries[k]]
    /\ seek \in {"floor", "ceil"}
    /\ derived = TRUE
    /\ held = NoRec
    /\ last = Call("init", None, 0, NoRec, "none")
    /\ nops = 0
    /\ itr = NoBatchItr
    /\ out = NoOut
    /\ rt = <<>>
    /\ KeyedIdle

\* the argument lists from_args is called with in SpecIter
IterInputs ==
    [key : {None}, lo : {<<i>> : i \in 1..MaxIterKey} \cup {None},
     hi : {<<i>> : i \in 1..MaxIterKey} \cup {None}, pfx : {None},
     rev : BOOLEAN, max_ : {NoInt, 1, 2}, include : BOOLEAN, max_phys : {NoInt, 1, 2}]

IterFrame ==
    UNCHANGED <<engine, seek, derived, held, last, rt, keyed, store, touched, callers, commits>>

\* what the observer keeps of a run: the direction, the records yielded, the
\* number of entries fetched, and the max_phys the object was configured with
IterOut(rev, r, max_phys) ==
    [dir |-> IF rev THEN "batch_reverse" ELSE "batch_forward", recs |-> r.recs,
     fetched |-> r.fetched, max_phys |-> max_phys]

\* it = BatchRangeIterator(engine, prefix, compressor);
\* list(from_args(it, None, lo, hi, None, reverse, max_, include, max_phys))
IterFromArgs(a) ==
    /\ nops = 0
    /\ LET mp == IF Truthy(a.max_phys) THEN a.max_phys ELSE NoInt
           o == set_max_phys(from_args_set(itr, a.key, a.lo, a.hi, a.pfx, a.max_, a.include),
                             mp)
           r == IF a.rev THEN iter_reverse(engine, o) ELSE iter_forward(engine, o)
       IN  /\ itr' = r.o
           /\ out' = IterOut(a.rev, r, mp)
    /\ nops' = nops + 1
    /\ IterFrame

\* list(it.forward()) or list(it.reverse()) on the object used before
IterAgain(rev) ==
    /\ nops > 0
    /\ nops < MaxIterRuns
    /\ LET r == IF rev THEN iter_reverse(engine, itr) ELSE iter_forward(engine, itr)
       IN  /\ itr' = r.o
           /\ out' = IterOut(rev, r, out.max_phys)
    /\ nops' = nops + 1
    /\ IterFrame

NextIter ==
    \/ \E a \in IterInputs : IterFromArgs(a)
    \/ \E rev \in BOOLEAN : IterAgain(rev)

SpecIter == InitIter /\ [][NextIter]_vars

\* the object with its bounds and caps as configured and nothing fetched
Fresh(o, max_phys) ==
    [o EXCEPT !.index = 0, !.phys_key = <<>>, !.raw = <<>>, !.max_phys = max_phys]

\* the members of physical entry k as the iterator is to yield them, lowest
\* key first
IterMembers(eng, k) ==
    IF EntrySize(k) = 1
    THEN <<[phys_key |-> k, key |-> Unpacks(prefix, k)[1], data |-> eng[k]]>>
    ELSE [i \in 1..EntrySize(k) |->
            [phys_key |-> k, key |-> Members(eng, k)[i].key, data |-> Members(eng, k)[i].data]]

\* C36: the members of a multi-record entry are yielded one per step, each
\* key with its own value, in ascending key order on forward() and descending
\* on reverse(), and a member of another entry follows only the last member
\* of the current one.
C36_MembersInOrder ==
    out.dir \in {"batch_forward", "batch_reverse"} =>
        /\ \A i \in 1..Len(out.recs) :
              \E j \in 1..EntrySize(out.recs[i].phys_key) :
                  out.recs[i] = IterMembers(engine, out.recs[i].phys_key)[j]
        /\ \A i \in 1..(Len(out.recs) - 1) :
              LET a == out.recs[i]
                  b == out.recs[i + 1]
                  ms == IterMembers(engine, a.phys_key)
              IN  IF a.phys_key = b.phys_key
                  THEN IF out.dir = "batch_forward" THEN SeqLt(a.key, b.key)
                       ELSE SeqLt(b.key, a.key)
                  ELSE a = (IF out.dir = "batch_forward" THEN ms[Len(ms)] ELSE ms[1])

\* the same for the first iteration of an object
FreshMembersInOrder == nops = 1 => C36_MembersInOrder

\* the logical records of the collection within the bounds of the object
InBoundsMembers(eng, o) ==
    LET ks == SortSeqs(PhysKeys(eng))
        all == Concat([i \in 1..Len(ks) |-> IterMembers(eng, ks[i])])
    IN  SelectSeq(all, LAMBDA m : ApplyPred(o.lo_pred, o.lo, m.key)
                                   /\ ApplyPred(o.hi_pred, o.hi, m.key))

\* C37: with no caps, reverse() with bounds (lo, hi) yields the records
\* forward() yields with the same bounds, in the opposite order: the records
\* of the collection within the bounds, also when a bound lies inside the key
\* range of a batch.
C37_ReverseOfForward ==
    (nops = 1 /\ itr.remain = NoInt /\ out.max_phys = NoInt) =>
        /\ iter_reverse(engine, Fresh(itr, NoInt)).recs
              = Rev(iter_forward(engine, Fresh(itr, NoInt)).recs)
        /\ out.dir = "batch_forward" => out.recs = InBoundsMembers(engine, itr)

\* C38: after set_max_phys(m) an iteration fetches at most m physical
\* entries, whatever the result cap, and max_phys never cuts a batch: with no
\* bounds and no result cap the iteration ends with the last member of an
\* entry, and it yields every member of the first m entries of the collection
\* unless an entry of another prefix was fetched first.
C38_MaxPhysBetweenEntries ==
    (out.dir \in {"batch_forward", "batch_reverse"} /\ out.max_phys # NoInt) =>
        /\ out.fetched <= out.max_phys
        /\ (itr.lo = None /\ itr.hi = None /\ itr.remain = NoInt /\ out.recs # <<>>) =>
              LET z == out.recs[Len(out.recs)]
                  ms == IterMembers(engine, z.phys_key)
              IN  z = (IF out.dir = "batch_forward" THEN ms[Len(ms)] ELSE ms[1])
        /\ (nops = 1 /\ itr.lo = None /\ itr.hi = None /\ itr.remain = NoInt
            /\ out.dir = "batch_forward") =>
              out.recs = Concat([i \in 1..Len(Take(SortSeqs(PhysKeys(engine)), out.max_phys)) |->
                                    IterMembers(engine, SortSeqs(PhysKeys(engine))[i])])

\* C38 witness: with max_phys = 1 the batch was fetched and all its members
\* were yielded, and the lone record after it was not.
C38_Witness ==
    /\ out.dir = "batch_forward" /\ out.max_phys = 1 /\ nops = 1
    /\ itr.lo = None /\ itr.hi = None /\ itr.remain = NoInt
    /\ Len(out.recs) = MaxIterKey - 1
    /\ Cardinality(PhysKeys(engine)) = 2

\* C39: an iteration run on an object that was used before yields what the
\* same iteration yields on a new object with the same bounds and caps.
C39_FreshScan ==
    [][(nops' = nops + 1 /\ nops > 0) =>
          out'.recs = (IF out'.dir = "batch_reverse"
                       THEN iter_reverse(engine, Fresh(itr, out.max_phys)).recs
                       ELSE iter_forward(engine, Fresh(itr, out.max_phys)).recs)]_vars

(***************************************************************************)
(* C40: the result cap of a reverse items() listing below a bound.          *)
(***************************************************************************)
\* C40: items(hi=H, reverse=True, max=m) yields the first min(m, number of
\* matching records) records of the listing without max: a record skipped at
\* an exclusive upper bound does not count against max.
C40_ReverseMaxBelowBound ==
    (/\ out.dir = "items"
     /\ out.args.key = None /\ out.args.lo = None /\ out.args.hi # None
     /\ out.args.rev /\ out.args.max_ # NoInt) =>
        out.recs = Take(items(engine, None, None, out.args.hi, TRUE, NoInt, out.args.include),
                        out.args.max_)

\* the same for a forward listing, where nothing is skipped at the start
ForwardMaxBelowBound ==
    (/\ out.dir = "items"
     /\ out.args.key = None /\ out.args.lo = None /\ out.args.hi # None
     /\ ~out.args.rev /\ out.args.max_ # NoInt) =>
        out.recs = Take(items(engine, None, None, out.args.hi, FALSE, NoInt, out.args.include),
                        out.args.max_)

====
